---- MODULE Spec2Model ----
(***************************************************************************)
(* A model of the baseline JPEG decoder of src/src/main.rs: the byte loop  *)
(* of main (the segment framer), the Huffman table builders, the bit       *)
(* reader, symbol and block decode, the scan iteration, dequantization,    *)
(* and the pixel stages after idct (upscale, colour conversion, bitmap).   *)
(*                                                                         *)
(* Bytes are integers 0..255.  An Option<u8> is the byte or None.  A u8 or *)
(* u16 operation that overflows panics in a build with overflow checks and *)
(* wraps in a build without them; overflow_checks says which build runs.   *)
(***************************************************************************)
EXTENDS Integers, Sequences, FiniteSets, TLC

VARIABLES
    fr,               \* the locals of main's byte loop, with the Frame being built
    rest,             \* input: the bytes of the current chunk not yet read
    nchunks,          \* input: the number of chunks started
    overflow_checks,  \* TRUE: integer overflow panics; FALSE: it wraps
    head2,            \* history: the first two bytes of the input
    eoi_read,         \* history: an EOI marker has been classified
    hs,               \* Huffman decode: the table under test and the last result
    ex,               \* sign extension: the category, the bits and the result
    sd,               \* scan decode: the state of decode_huffman_to_blocks
    px,               \* pixel stages: upscale, colour conversion, bitmap rows
    br                \* bit reader: a BitReader and the result of its last call

vars == <<fr, rest, nchunks, overflow_checks, head2, eoi_read, hs, ex, sd, px, br>>

-----------------------------------------------------------------------------
(* Markers (struct Markers) *)

SOF0 == 192
SOF2 == 194
SOF3 == 195
DHT == 196
SOF5 == 197
SOF7 == 199
SOF9 == 201
SOF11 == 203
DAC == 204
SOF13 == 205
SOF15 == 207
RST0 == 208
RST7 == 215
SOI == 216
EOI == 217
SOS == 218
DQT == 219
DNL == 220
DRI == 221
DHP == 222
EXP == 223
APP0 == 224
APP15 == 239
COM == 254
MRK == 255
TEM == 1
ESC == 0

\* Option::None; None < Some(b) for every byte b, as in Rust's ordering.
None == -1

-----------------------------------------------------------------------------
(* Fixed-width arithmetic *)

Hi4(byte) == byte \div 16

\* (byte << 4) >> 4 on a u8: the shift drops the high nibble.
Lo4(byte) == ((byte * 16) % 256) \div 16

from_be_bytes(b0, b1) == b0 * 256 + b1

RECURSIVE SumSeq(_)
SumSeq(s) == IF s = <<>> THEN 0 ELSE Head(s) + SumSeq(Tail(s))

\* s[a..b) of a 0-based slice, as the 1-based sequence of its elements.
Slice(s, a, b) == [i \in 1..(b - a) |-> s[a + i]]

-----------------------------------------------------------------------------
(* Huffman table construction (impl HuffmanTable) *)

Repeat(x, n) == [i \in 1..n |-> x]

RECURSIVE SizesFrom(_, _)
SizesFrom(L, i) ==
    IF i > 16 THEN <<>> ELSE Repeat(i, L[i]) \o SizesFrom(L, i + 1)

\* HUFFSIZE: the value i repeated L[i] times, for i = 1..16.
generate_size_table(L) == SizesFrom(L, 1)

\* The loop body of generate_code_table from element k on; code is the u16
\* counter, prev_size the size of the previous code.  `code += 1` is checked
\* arithmetic, `code << 1` silently drops the bits shifted out.
RECURSIVE CodesFrom(_, _, _, _, _)
CodesFrom(sizes, k, code, prev_size, oc) ==
    IF k > Len(sizes) THEN [ok |-> TRUE, codes |-> <<>>]
    ELSE LET shifted == (code * 2 ^ (sizes[k] - prev_size)) % 65536
         IN  IF shifted + 1 > 65535 /\ oc
             THEN [ok |-> FALSE, codes |-> <<>>]
             ELSE LET r == CodesFrom(sizes, k + 1, (shifted + 1) % 65536, sizes[k], oc)
                  IN  [ok |-> r.ok, codes |-> <<shifted>> \o r.codes]

\* HUFFCODE.  Panics (ok = FALSE) on an empty size table (first().unwrap()).
generate_code_table(sizes, oc) ==
    IF sizes = <<>> THEN [ok |-> FALSE, codes |-> <<>>]
    ELSE LET r == CodesFrom(sizes, 2, 1, sizes[1], oc)
         IN  [ok |-> r.ok, codes |-> <<0>> \o r.codes]

\* The index j of decoder_tables when its loop reaches size i (1-based i,
\* 0-based j): the number of codes shorter than i.
ValPtrAt(L, i) == SumSeq(SubSeq(L, 1, i - 1))

\* A variant of decoder_tables whose maxcode is the first code of each size
\* rather than the last.
decoder_tables_MaxIsFirst(L, codes) ==
    [mincode |-> [i \in 1..16 |-> IF L[i] = 0 THEN 0 ELSE codes[ValPtrAt(L, i) + 1]],
     maxcode |-> [i \in 1..16 |-> IF L[i] = 0 THEN None
                                  ELSE codes[ValPtrAt(L, i) + 1]],
     valptr  |-> [i \in 1..16 |-> IF L[i] = 0 THEN 0 ELSE ValPtrAt(L, i)]]

\* mincode, maxcode (None when no code has the size) and valptr, each indexed
\* by size 1..16; the fields keep their defaults (0) where L[i] = 0.
decoder_tables(L, codes) ==
    [mincode |-> [i \in 1..16 |-> IF L[i] = 0 THEN 0 ELSE codes[ValPtrAt(L, i) + 1]],
     maxcode |-> [i \in 1..16 |-> IF L[i] = 0 THEN None
                                  ELSE codes[ValPtrAt(L, i) + L[i]]],
     valptr  |-> [i \in 1..16 |-> IF L[i] = 0 THEN 0 ELSE ValPtrAt(L, i)]]

\* HuffmanTable::build on the bytes of one table (class|id, 16 counts, values).
\* decoder_tables unwraps codes[j]: it panics when the counts are not all
\* backed by a code, which cannot happen since codes has one entry per size.
HuffmanTable_build(length, data, oc) ==
    LET L     == Slice(data, 1, 17)
        V     == Slice(data, 17, Len(data))
        sizes == generate_size_table(L)
        gen   == generate_code_table(sizes, oc)
        dt    == decoder_tables(L, gen.codes)
    IN  IF ~gen.ok THEN [ok |-> FALSE]
        ELSE [ok |-> TRUE,
              table |-> [length |-> length,
                         class |-> Hi4(data[1]),
                         destination_id |-> Lo4(data[1]),
                         huffman_size_lengths |-> L,
                         huffman_values |-> V,
                         mincode |-> dt.mincode,
                         maxcode |-> dt.maxcode,
                         valptr |-> dt.valptr]]

-----------------------------------------------------------------------------
(* BitReader and next_symbol *)

BitReader_new(data) == [data |-> data, byte_idx |-> 0, bit_idx |-> 0]

\* A variant of next_bit that takes the bits of a byte from the low end.
next_bit_LowBitFirst(r) ==
    IF r.byte_idx >= Len(r.data) THEN [bit |-> None, r |-> r]
    ELSE [bit |-> (r.data[r.byte_idx + 1] \div 2 ^ r.bit_idx) % 2,
          r |-> IF r.bit_idx + 1 = 8
                THEN [r EXCEPT !.bit_idx = 0, !.byte_idx = @ + 1]
                ELSE [r EXCEPT !.bit_idx = @ + 1]]

\* BitReader::next_bit: the bit (None at the end of the data) and the reader
\* after it.
next_bit(r) ==
    IF r.byte_idx >= Len(r.data) THEN [bit |-> None, r |-> r]
    ELSE [bit |-> (r.data[r.byte_idx + 1] \div 2 ^ (7 - r.bit_idx)) % 2,
          r |-> IF r.bit_idx + 1 = 8
                THEN [r EXCEPT !.bit_idx = 0, !.byte_idx = @ + 1]
                ELSE [r EXCEPT !.bit_idx = @ + 1]]

\* The while loop of next_symbol and what follows it.  idx is the 0-based
\* index into maxcode; next_bit().unwrap() panics at the end of the data;
\* `code << 1` drops the bit shifted out of the u16.  status is "some" (a
\* symbol), "none" (no code within 16 bits) or "panic".
RECURSIVE SymbolLoop(_, _, _, _)
SymbolLoop(r, hf, code, idx) ==
    IF idx < 16 /\ (hf.maxcode[idx + 1] = None \/ code > hf.maxcode[idx + 1])
    THEN LET b == next_bit(r)
         IN  IF b.bit = None THEN [status |-> "panic", symbol |-> None, r |-> r]
             ELSE SymbolLoop(b.r, hf, ((code * 2) % 65536) + b.bit, idx + 1)
    ELSE IF idx >= 16 THEN [status |-> "none", symbol |-> None, r |-> r]
    ELSE LET j == hf.valptr[idx + 1] + code - hf.mincode[idx + 1]
         IN  IF j < 0 \/ j >= Len(hf.huffman_values)
             THEN [status |-> "panic", symbol |-> None, r |-> r]
             ELSE [status |-> "some", symbol |-> hf.huffman_values[j + 1], r |-> r]

next_symbol(r, hf) ==
    LET b == next_bit(r)
    IN  IF b.bit = None THEN [status |-> "panic", symbol |-> None, r |-> r]
        ELSE SymbolLoop(b.r, hf, b.bit, 0)

\* The number of bits a reader has consumed.
BitPos(r) == 8 * r.byte_idx + r.bit_idx

-----------------------------------------------------------------------------
(* Segment builders *)

\* FrameComponent::build on the three bytes of one component.
FrameComponent_build(data) ==
    [id |-> data[1],
     horizontal_sample_factor |-> Hi4(data[2]),
     vertical_sample_factor |-> Lo4(data[2]),
     quantization_table_selector |-> data[3]]

\* FrameHeader::build: appends the segment's components to self.components.
\* total_components * 3 is a u8 product.  Panics on an index or a slice past
\* the end of data and on a last chunk shorter than 3.  The second loop of the
\* function iterates over the single element data.iter().nth(6) and never
\* collects three bytes, so it adds nothing.
FrameHeader_build(self, length, marker, data, oc) ==
    IF Len(data) < 6 THEN [ok |-> FALSE]
    ELSE LET nf == data[6]
             component_length == (nf * 3) % 256
             n == component_length \div 3
         IN  IF (nf * 3 > 255 /\ oc)
                \/ component_length + 6 > Len(data)
                \/ component_length % 3 # 0
             THEN [ok |-> FALSE]
             ELSE [ok |-> TRUE,
                   header |->
                     [marker |-> marker,
                      length |-> length,
                      precision |-> data[1],
                      total_vertical_lines |-> from_be_bytes(data[2], data[3]),
                      total_horizontal_lines |-> from_be_bytes(data[4], data[5]),
                      total_components |-> nf,
                      components |-> self.components \o
                          [i \in 1..n |->
                              FrameComponent_build(Slice(data, 6 + 3 * (i - 1),
                                                         9 + 3 * (i - 1)))]]]

\* ScanComponent::build on the two bytes of one scan component.
ScanComponent_build(data) ==
    [id |-> data[1],
     dc_entropy_table_dest |-> Hi4(data[2]),
     ac_entropy_table_dest |-> data[2] % 16]

\* ScanHeader::build.  total_components * 2 is a u8 product.  The three
\* parameter reads use the 0-based indices 2 + n, 3 + n and 3 + n, where n is
\* the byte length of the component list.
ScanHeader_build(length, data, oc) ==
    LET ns == data[1]
        component_length == (ns * 2) % 256
    IN  IF (ns * 2 > 255 /\ oc) \/ component_length + 4 # length
        THEN [ok |-> FALSE]
        ELSE [ok |-> TRUE,
              header |->
                [length |-> length,
                 total_components |-> ns,
                 components |->
                     [i \in 1..(component_length \div 2) |->
                         ScanComponent_build(Slice(data, 1 + 2 * (i - 1),
                                                   3 + 2 * (i - 1)))],
                 spectral_selection_start |-> data[2 + component_length + 1],
                 spectral_selection_end |-> data[3 + component_length + 1],
                 successive_approximation_hi |-> Hi4(data[3 + component_length + 1]),
                 successive_approximation_lo |-> Lo4(data[3 + component_length + 1])]]

\* QuantizationTable::build on the 65 bytes of one table.
QuantizationTable_build(length, data) ==
    [length |-> length,
     precision |-> Hi4(data[1]),
     destination_id |-> Lo4(data[1]),
     elements |-> Slice(data, 1, Len(data))]

\* RestartInterval::build; data[1] panics on a payload of one byte.
RestartInterval_build(length, data) ==
    IF Len(data) < 2 THEN [ok |-> FALSE]
    ELSE [ok |-> TRUE, ri |-> [length |-> length,
                               interval |-> from_be_bytes(data[1], data[2])]]

\* Frame::default.  The optional restart_interval is a sequence of at most one
\* element.
Frame_default ==
    [frame_header |-> [marker |-> 0, length |-> 0, precision |-> 0,
                       total_vertical_lines |-> 0, total_horizontal_lines |-> 0,
                       total_components |-> 0, components |-> <<>>],
     scans |-> <<>>,
     lines |-> None,
     quantization_tables |-> <<>>,
     dc_huffman_tables |-> <<>>,
     ac_huffman_tables |-> <<>>,
     arithmetic_tables |-> <<>>,
     restart_interval |-> <<>>,
     comments |-> <<>>,
     application_data |-> <<>>,
     expand_reference |-> None]

-----------------------------------------------------------------------------
(* The byte loop of main: one operator per arm of `match stage` *)

\* The locals of main before the first byte.
LoopInit ==
    [stage |-> "Marker",
     current_marker_bytes |-> <<None, None>>,
     segment_length_bytes |-> <<None, None>>,
     segment_length |-> 0,
     segment_data |-> <<>>,
     frame |-> Frame_default,
     dht_table_length |-> 17,
     outcome |-> "reading"]

\* A panic ends the program.
Panic(s) == [s EXCEPT !.outcome = "panic"]

\* frame.scans.last_mut().unwrap().entropy_coded_segments.push(byte)
PushEntropy(s, byte) ==
    LET n == Len(s.frame.scans)
    IN  IF n = 0 THEN Panic(s)
        ELSE [s EXCEPT !.frame.scans[n].entropy_coded_segments = Append(@, byte)]

IsStandalone(m) == m \in {TEM, SOI, EOI}

\* ReadStage::Marker
MarkerStage(s, byte) ==
    LET old == s.current_marker_bytes
        cm  == IF old[1] = None THEN <<byte, old[2]>>
               ELSE IF old[2] = None THEN <<old[1], byte>>
               ELSE old
        t   == [s EXCEPT !.current_marker_bytes = cm]
    IN  IF cm[1] # 255 THEN Panic(t)
        ELSE IF cm[2] = None THEN t
        ELSE IF cm[2] > TEM /\ cm[2] < SOF0 THEN Panic(t)
        ELSE IF IsStandalone(cm[2])
             THEN [t EXCEPT !.current_marker_bytes = <<None, None>>,
                            !.stage = "Marker"]
        ELSE IF cm[2] = MRK THEN t
        ELSE IF cm[2] = ESC
             THEN LET u == PushEntropy(t, MRK)
                  IN  IF u.outcome = "panic" THEN u ELSE [u EXCEPT !.stage = "Scan"]
        ELSE [t EXCEPT !.stage = "Length"]

\* ReadStage::Length; the subtraction of 2 is a u16 subtraction.
LengthStage(s, byte, oc) ==
    LET lb == s.segment_length_bytes
    IN  IF lb[1] = None THEN [s EXCEPT !.segment_length_bytes = <<byte, None>>]
        ELSE IF lb[2] = None
             THEN LET l == from_be_bytes(lb[1], byte)
                      t == [s EXCEPT !.segment_length_bytes = <<lb[1], byte>>]
                  IN  IF l < 2 /\ oc THEN Panic(t)
                      ELSE [t EXCEPT !.segment_length = (l - 2) % 65536,
                                     !.stage = "Segment"]
        ELSE s

IsFrameHeaderMarker(m) ==
    \/ m >= SOF0 /\ m <= SOF3
    \/ m >= SOF5 /\ m <= SOF7
    \/ m >= SOF9 /\ m <= SOF11
    \/ m >= SOF13 /\ m <= SOF15
    \/ m = DHP

\* The dispatch of a completed segment to its builder: the frame with the
\* segment stored, or a panic of the builder.
Dispatch(s, m, oc) ==
    LET f == s.frame
        len == s.segment_length
        data == s.segment_data
    IN  IF IsFrameHeaderMarker(m)
        THEN LET r == FrameHeader_build(f.frame_header, len, m, data, oc)
             IN  IF r.ok THEN [s EXCEPT !.frame.frame_header = r.header] ELSE Panic(s)
        ELSE IF m = SOS
        THEN LET r == ScanHeader_build(len, data, oc)
             IN  IF r.ok
                 THEN [s EXCEPT !.frame.scans =
                          Append(@, [scan_header |-> r.header,
                                     entropy_coded_segments |-> <<>>])]
                 ELSE Panic(s)
        ELSE IF m = EXP
        THEN [s EXCEPT !.frame.expand_reference =
                 [length |-> len, expand_horizontally |-> Hi4(data[1]),
                  expand_vertically |-> Lo4(data[1])]]
        ELSE IF m = DAC
        THEN IF Len(data) < 2 THEN Panic(s)
             ELSE [s EXCEPT !.frame.arithmetic_tables =
                      Append(@, [length |-> len, class |-> Hi4(data[1]),
                                 destination_id |-> Lo4(data[1]), value |-> data[2]])]
        ELSE IF m = DNL
        THEN IF Len(data) < 2 THEN Panic(s)
             ELSE [s EXCEPT !.frame.lines =
                      [length |-> len, total_lines |-> from_be_bytes(data[1], data[2])]]
        ELSE IF m = DRI
        THEN LET r == RestartInterval_build(len, data)
             IN  IF r.ok THEN [s EXCEPT !.frame.restart_interval = <<r.ri>>] ELSE Panic(s)
        ELSE IF m = COM
        THEN [s EXCEPT !.frame.comments =
                 Append(@, [length |-> len, comment_bytes |-> data])]
        ELSE IF m >= APP0 /\ m <= APP15
        THEN [s EXCEPT !.frame.application_data =
                 Append(@, [marker |-> m, length |-> len, application_data |-> data])]
        ELSE s

\* ReadStage::Segment
SegmentStage(s, byte, oc) ==
    LET t == [s EXCEPT !.segment_data = Append(@, byte)]
        m == s.current_marker_bytes[2]
    IN  IF m = DHT THEN [t EXCEPT !.stage = "DHTSegment"]
        ELSE IF m = DQT THEN [t EXCEPT !.stage = "DQTSegment"]
        ELSE IF Len(t.segment_data) = t.segment_length
        THEN LET u == Dispatch(t, m, oc)
             IN  IF u.outcome = "panic" THEN u
                 ELSE [u EXCEPT !.segment_length_bytes = <<None, None>>,
                                !.segment_length = 0,
                                !.segment_data = <<>>,
                                !.stage = IF m = SOS THEN "Scan" ELSE "Marker",
                                !.current_marker_bytes = <<None, None>>]
        ELSE t

\* Fault injection for C1: a Scan stage that does not test for 0xFF and
\* buffers every byte.
ScanStage_NoMarkerTest(s, byte) == PushEntropy(s, byte)

\* ReadStage::Scan
ScanStage(s, byte) ==
    IF byte = 255
    THEN [s EXCEPT !.current_marker_bytes = <<255, None>>, !.stage = "Marker"]
    ELSE PushEntropy(s, byte)

\* The end of a DHT or DQT segment: `if segment_length == 0 { ... }`.
TableSegmentEnd(s) ==
    IF s.segment_length # 0 THEN s
    ELSE IF Len(s.segment_data) > 0 THEN Panic(s)
    ELSE [s EXCEPT !.segment_length_bytes = <<None, None>>,
                   !.stage = "Marker",
                   !.current_marker_bytes = <<None, None>>]

\* ReadStage::DHTSegment.  The sum of the 16 counts is a u8 sum, the
\* subtraction from segment_length a u16 subtraction.
DHTSegmentStage(s, byte, oc) ==
    LET t == [s EXCEPT !.segment_data = Append(@, byte)]
        n == Len(t.segment_data)
    IN  IF n = 17
        THEN LET sum == SumSeq(Slice(t.segment_data, 1, 17))
             IN  IF sum > 255 /\ oc THEN Panic(t)
                 ELSE TableSegmentEnd(
                        [t EXCEPT !.dht_table_length = (@ + (sum % 256)) % 65536])
        ELSE IF n = t.dht_table_length
        THEN LET r == HuffmanTable_build(t.dht_table_length, t.segment_data, oc)
             IN  IF ~r.ok \/ (t.segment_length < t.dht_table_length /\ oc)
                 THEN Panic(t)
                 ELSE LET tab == r.table
                          u == IF tab.class = 0
                               THEN [t EXCEPT !.frame.dc_huffman_tables = Append(@, tab)]
                               ELSE [t EXCEPT !.frame.ac_huffman_tables = Append(@, tab)]
                      IN  TableSegmentEnd(
                            [u EXCEPT !.segment_data = <<>>,
                                      !.segment_length =
                                          (@ - t.dht_table_length) % 65536,
                                      !.dht_table_length = 17])
        ELSE TableSegmentEnd(t)

\* ReadStage::DQTSegment
DQTSegmentStage(s, byte, oc) ==
    LET t == [s EXCEPT !.segment_data = Append(@, byte)]
    IN  IF Len(t.segment_data) = 65
        THEN IF t.segment_length < 65 /\ oc THEN Panic(t)
             ELSE TableSegmentEnd(
                    [t EXCEPT !.frame.quantization_tables =
                                  Append(@, QuantizationTable_build(65, t.segment_data)),
                              !.segment_data = <<>>,
                              !.segment_length = (@ - 65) % 65536])
        ELSE TableSegmentEnd(t)

\* One pass of `for byte in bytes.iter()`.
Step(s, byte, oc) ==
    CASE s.stage = "Marker"     -> MarkerStage(s, byte)
      [] s.stage = "Length"     -> LengthStage(s, byte, oc)
      [] s.stage = "Segment"    -> SegmentStage(s, byte, oc)
      [] s.stage = "Scan"       -> ScanStage(s, byte)
      [] s.stage = "DHTSegment" -> DHTSegmentStage(s, byte, oc)
      [] s.stage = "DQTSegment" -> DQTSegmentStage(s, byte, oc)

\* The loop over a byte string, stopping at a panic: the first half of the
\* string, then the second.
RECURSIVE Feed(_, _, _)
Feed(s, bytes, oc) ==
    IF bytes = <<>> \/ s.outcome # "reading" THEN s
    ELSE IF Len(bytes) = 1 THEN Step(s, bytes[1], oc)
    ELSE LET h == Len(bytes) \div 2
         IN  Feed(Feed(s, SubSeq(bytes, 1, h), oc),
                  SubSeq(bytes, h + 1, Len(bytes)), oc)

-----------------------------------------------------------------------------
(* The input of the framer: the file is a concatenation of chunks, read one *)
(* byte at a time, and may end after any byte.                              *)

MaxChunks == 3

Ones(n) == [i \in 1..n |-> 1]
Zeros(n) == [i \in 1..n |-> 0]

ChunkSOI  == <<255, SOI>>
ChunkEOI  == <<255, EOI>>
ChunkFill == <<255>>
ChunkRST  == <<255, RST0>>
ChunkCOM  == <<255, COM, 0, 3, 65>>
ChunkSOF0 == <<255, SOF0, 0, 11, 8, 0, 8, 0, 8, 1, 1, 17, 0>>
ChunkSOF2 == <<255, SOF2, 0, 11, 8, 0, 8, 0, 8, 1, 1, 17, 0>>
ChunkDRI  == <<255, DRI, 0, 4, 0, 1>>
\* One DC table, id 0, with the single code 0 of length 1 for the value 4.
ChunkDHT  == <<255, DHT, 0, 20, 0, 1>> \o Zeros(15) \o <<4>>
\* One 8-bit table, id 0, all ones.
ChunkDQT  == <<255, DQT, 0, 67, 0>> \o Ones(64)
\* One scan component, id 1, tables 0/0, Ss = 0, Se = 63, Ah|Al = 0.
ChunkSOS  == <<255, SOS, 0, 8, 1, 1, 0, 0, 63, 0>>
\* Entropy-coded bytes 12 34 FF 00 56.
ChunkData == <<18, 52, 255, 0, 86>>

Chunks ==
    {ChunkSOI, ChunkEOI, ChunkFill, ChunkRST, ChunkCOM, ChunkSOF0, ChunkSOF2,
     ChunkDRI, ChunkDHT, ChunkDQT, ChunkSOS, ChunkData}

\* The next byte of the input, with the input left after it.
NextInputs ==
    IF rest # <<>>
    THEN {[byte |-> Head(rest), rest |-> Tail(rest), n |-> nchunks]}
    ELSE IF nchunks < MaxChunks
    THEN {[byte |-> Head(c), rest |-> Tail(c), n |-> nchunks + 1] : c \in Chunks}
    ELSE {}

Consume(i) ==
    /\ rest' = i.rest
    /\ nchunks' = i.n
    /\ head2' = IF Len(head2) < 2 THEN Append(head2, i.byte) ELSE head2

\* The state of the entropy decoder's specifications while the framer runs.
Idle == [pc |-> "idle"]

DecoderIdle == hs = Idle /\ ex = Idle /\ sd = Idle /\ px = Idle /\ br = Idle

Init ==
    /\ fr = LoopInit
    /\ rest = <<>>
    /\ nchunks = 0
    /\ overflow_checks \in BOOLEAN
    /\ head2 = <<>>
    /\ eoi_read = FALSE
    /\ DecoderIdle

ReadMarker ==
    /\ fr.outcome = "reading" /\ fr.stage = "Marker"
    /\ \E i \in NextInputs :
          /\ fr' = MarkerStage(fr, i.byte)
          /\ eoi_read' = (eoi_read \/ (fr'.outcome = "reading"
                                       /\ fr.current_marker_bytes = <<255, None>>
                                       /\ i.byte = EOI))
          /\ Consume(i)
    /\ UNCHANGED <<overflow_checks, hs, ex, sd, px, br>>

ReadLength ==
    /\ fr.outcome = "reading" /\ fr.stage = "Length"
    /\ \E i \in NextInputs :
          fr' = LengthStage(fr, i.byte, overflow_checks) /\ Consume(i)
    /\ UNCHANGED <<overflow_checks, eoi_read, hs, ex, sd, px, br>>

ReadSegment ==
    /\ fr.outcome = "reading" /\ fr.stage = "Segment"
    /\ \E i \in NextInputs :
          fr' = SegmentStage(fr, i.byte, overflow_checks) /\ Consume(i)
    /\ UNCHANGED <<overflow_checks, eoi_read, hs, ex, sd, px, br>>

ReadScan ==
    /\ fr.outcome = "reading" /\ fr.stage = "Scan"
    /\ \E i \in NextInputs :
          fr' = ScanStage(fr, i.byte) /\ Consume(i)
    /\ UNCHANGED <<overflow_checks, eoi_read, hs, ex, sd, px, br>>

ReadDHTSegment ==
    /\ fr.outcome = "reading" /\ fr.stage = "DHTSegment"
    /\ \E i \in NextInputs :
          fr' = DHTSegmentStage(fr, i.byte, overflow_checks) /\ Consume(i)
    /\ UNCHANGED <<overflow_checks, eoi_read, hs, ex, sd, px, br>>

ReadDQTSegment ==
    /\ fr.outcome = "reading" /\ fr.stage = "DQTSegment"
    /\ \E i \in NextInputs :
          fr' = DQTSegmentStage(fr, i.byte, overflow_checks) /\ Consume(i)
    /\ UNCHANGED <<overflow_checks, eoi_read, hs, ex, sd, px, br>>

\* The byte loop ends with the input; main goes on to decode_huffman_to_blocks
\* with the frame as it stands.
EndOfInput ==
    /\ fr.outcome = "reading"
    /\ fr' = [fr EXCEPT !.outcome = "decoding"]
    /\ rest' = <<>>
    /\ UNCHANGED <<nchunks, overflow_checks, head2, eoi_read, hs, ex, sd, px, br>>

Next ==
    \/ ReadMarker
    \/ ReadLength
    \/ ReadSegment
    \/ ReadScan
    \/ ReadDHTSegment
    \/ ReadDQTSegment
    \/ EndOfInput

Spec == Init /\ [][Next]_vars

-----------------------------------------------------------------------------
(* Claims about the framer, checked under Spec *)

\* The entropy buffer of the current (last) scan.
Ecs(s) == s.frame.scans[Len(s.frame.scans)].entropy_coded_segments

\* The frame of s with w appended to the current scan's entropy buffer.
FrameWithEntropy(s, w) ==
    [s.frame EXCEPT !.scans[Len(s.frame.scans)].entropy_coded_segments = @ \o w]

\* Byte stuffing as an encoder applies it: FF becomes FF 00.
RECURSIVE Stuff(_)
Stuff(w) ==
    IF w = <<>> THEN <<>>
    ELSE (IF Head(w) = 255 THEN <<255, 0>> ELSE <<Head(w)>>) \o Stuff(Tail(w))

MaxText == 2

EntropyBytes == {0, 18, 255}

SeqsUpTo(S, n) == UNION {[1..k -> S] : k \in 0..n}

\* Entropy-coded texts: every short one, and the 12 34 FF 56 of scenario S2.
ScanTexts == SeqsUpTo(EntropyBytes, MaxText) \cup {<<18, 52, 255, 86>>}

InScan == fr.outcome = "reading" /\ fr.stage = "Scan"

\* C1: while the framer reads scan data, FF 00 appends the one byte FF to the
\* current scan's entropy buffer and every other byte is appended unchanged and
\* in order: reading the stuffed form of a text w from any state of the Scan
\* stage appends exactly w (12 34 FF 00 56 appends 12 34 FF 56), leaves the
\* rest of the frame alone and ends in the Scan stage.
C1_ByteStuffing ==
    InScan =>
        \A w \in ScanTexts :
            LET t == Feed(fr, Stuff(w), overflow_checks)
            IN  /\ t.outcome = "reading"
                /\ t.stage = "Scan"
                /\ t.frame = FrameWithEntropy(fr, w)

\* C1 witness: the framer has read a scan holding 12 34 FF 00 56 and its
\* entropy buffer is 12 34 FF 56.
C1_Witness ==
    /\ InScan
    /\ rest = <<>>
    /\ Ecs(fr) = <<18, 52, 255, 86>>

MaxFill == 3

\* Marker bytes of each class: standalone, length-prefixed, restart, unknown.
MarkerBytes == {TEM, 2, SOF0, DHT, RST0, SOI, EOI, SOS, DQT, COM}

\* C2: in the Marker stage a run of two or more FF bytes followed by a marker
\* byte m is handled exactly like FF m, between segments and after an FF met
\* in scan data: both inputs lead to the same state.
C2_FillBytesCollapse ==
    (fr.outcome = "reading"
     /\ (fr.stage = "Scan"
         \/ (fr.stage = "Marker" /\ fr.current_marker_bytes = <<None, None>>)))
    => \A m \in MarkerBytes : \A n \in 2..MaxFill :
          Feed(fr, Repeat(255, n) \o <<m>>, overflow_checks)
              = Feed(fr, <<255, m>>, overflow_checks)

\* C3: a restart marker FF Dn met in scan data is a standalone two-byte
\* marker: no length and no payload are read for it, it adds nothing to the
\* entropy buffer, and the data byte after it is appended to the same scan's
\* entropy buffer.
C3_RestartMarkerStandalone ==
    InScan =>
        \A n \in 0..7 : \A d \in EntropyBytes \ {255} :
            LET t == Feed(fr, <<255, RST0 + n, d>>, overflow_checks)
            IN  /\ t.outcome = "reading"
                /\ t.stage = "Scan"
                /\ t.segment_length_bytes = fr.segment_length_bytes
                /\ t.segment_data = fr.segment_data
                /\ t.frame = FrameWithEntropy(fr, <<d>>)

\* C4: an input whose first two bytes are not FF D8 is rejected: the framer
\* never stores a segment of it and never hands its frame to decoding.  (An
\* input that starts with the fill bytes FF FF is left out: C2 would have it
\* read as a marker prefix.)
C4_MustBeginWithSOI ==
    (Len(head2) = 2 /\ head2 # ChunkSOI /\ head2 # <<255, 255>>)
    => (fr.outcome # "decoding" /\ fr.frame = Frame_default)

\* C5: an input that ends before an EOI marker has been read is rejected: the
\* driver goes on to decoding only after an EOI.
C5_TruncatedInputRejected == fr.outcome = "decoding" => eoi_read

\* C6: only an SOF0 segment is ever built into the frame header; any other
\* frame-header marker fails instead.
C6_OnlySOF0Built == fr.frame.frame_header.marker \in {0, SOF0}

-----------------------------------------------------------------------------
(* Huffman tables and symbol decode: HuffmanTable::build on a table, then   *)
(* next_symbol on a stream that holds one of its codes.                     *)

MaxCodeLen == 3
MaxCount == 2
MaxLead == 1

\* Count vectors L[1..16]: every vector with codes of the first MaxCodeLen
\* lengths only, and two that reach length 16: one code of every length (the
\* last code is FFFE), and one code of every length with two of length 16
\* (the last code is FFFF).
ShortCounts ==
    {[i \in 1..16 |-> IF i <= MaxCodeLen THEN c[i] ELSE 0] :
        c \in [1..MaxCodeLen -> 0..MaxCount]}

DeepCounts ==
    {[i \in 1..16 |-> 1], [i \in 1..16 |-> IF i = 16 THEN 2 ELSE 1]}

TableCounts == ShortCounts \cup DeepCounts

\* Symbol values for a table of n codes, all distinct: ascending or descending.
SymbolValues(n) == {[j \in 1..n |-> j - 1], [j \in 1..n |-> 255 - j]}

\* The bytes of one table of a DHT segment: class|id, the counts, the values.
TableBytes(tc_th, L, V) == <<tc_th>> \o L \o V

\* The size low-order bits of code, first bit first, as an encoder emits them.
CodeBits(code, size) == [i \in 1..size |-> (code \div 2 ^ (size - i)) % 2]

\* Bits, a multiple of 8 of them, packed into bytes, first bit in bit 7.
PackBytes(bits) ==
    [k \in 1..(Len(bits) \div 8) |->
        SumSeq([i \in 1..8 |-> bits[8 * (k - 1) + i] * 2 ^ (8 - i)])]

\* The streams that hold `bits` after `lead` bits: padded to whole bytes with
\* zeros or with ones, and the same followed by one more byte.
StreamsWith(lead, bits) ==
    LET n == lead + Len(bits)
        padlen == (8 - (n % 8)) % 8
        body(fill) == PackBytes(Repeat(0, lead) \o bits \o Repeat(fill, padlen))
    IN  {body(0), body(1), body(0) \o <<165>>}

\* A reader of data that has consumed `lead` bits.
ReaderAt(data, lead) ==
    [data |-> data, byte_idx |-> lead \div 8, bit_idx |-> lead % 8]

HuffInit ==
    /\ fr = LoopInit /\ rest = <<>> /\ nchunks = 0 /\ head2 = <<>>
    /\ eoi_read = FALSE
    /\ overflow_checks \in BOOLEAN
    /\ \E L \in TableCounts : \E V \in SymbolValues(SumSeq(L)) :
          hs = [pc |-> "input", L |-> L, V |-> V]
    /\ ex = Idle /\ sd = Idle /\ px = Idle /\ br = Idle

\* HuffmanTable::build on the table's bytes; HUFFSIZE and HUFFCODE are kept
\* beside the table.
BuildTable ==
    /\ hs.pc = "input"
    /\ LET b == HuffmanTable_build(17 + Len(hs.V), TableBytes(0, hs.L, hs.V),
                                   overflow_checks)
           sizes == generate_size_table(hs.L)
       IN  hs' = IF b.ok
                 THEN [pc |-> "built", L |-> hs.L, V |-> hs.V, table |-> b.table,
                       sizes |-> sizes,
                       codes |-> generate_code_table(sizes, overflow_checks).codes]
                 ELSE [pc |-> "panic", L |-> hs.L, V |-> hs.V]
    /\ UNCHANGED <<fr, rest, nchunks, overflow_checks, head2, eoi_read, ex, sd, px, br>>

\* next_symbol on a stream that holds the code of index j.
DecodeSymbol ==
    /\ hs.pc = "built"
    /\ \E j \in 1..Len(hs.V) : \E lead \in 0..MaxLead :
       \E data \in StreamsWith(lead, CodeBits(hs.codes[j], hs.sizes[j])) :
          hs' = [hs EXCEPT !.pc = "decoded"] @@
                [j |-> j, lead |-> lead,
                 result |-> next_symbol(ReaderAt(data, lead), hs.table)]
    /\ UNCHANGED <<fr, rest, nchunks, overflow_checks, head2, eoi_read, ex, sd, px, br>>

HuffNext == BuildTable \/ DecodeSymbol

SpecHuffman == HuffInit /\ [][HuffNext]_vars

\* Kraft's sum of a count vector, scaled by 2^16.
KraftSum(L) == SumSeq([i \in 1..16 |-> L[i] * 2 ^ (16 - i)])

\* The claim's valid tables: lengths 1..16 and at least one code.
ValidCounts(L) == SumSeq(L) >= 1

\* Tables whose codes fit their lengths and that leave the 16-bit code of all
\* ones unassigned.
PrefixCounts(L) ==
    /\ ValidCounts(L)
    /\ KraftSum(L) <= 65536
    /\ L[16] > 0 => KraftSum(L) < 65536

\* No two codes are equal and none is a prefix of another.
PrefixFree(sizes, codes) ==
    \A j, k \in 1..Len(codes) :
        (j # k /\ sizes[j] <= sizes[k])
        => codes[k] \div 2 ^ (sizes[k] - sizes[j]) # codes[j]

\* The decode of index j returned V[j] and consumed HUFFSIZE[j] bits.
DecodedRight ==
    /\ hs.result.status = "some"
    /\ hs.result.symbol = hs.V[hs.j]
    /\ BitPos(hs.result.r) = hs.lead + hs.sizes[hs.j]

\* C7 as stated: for every table with lengths 1..16 and at least one code the
\* table is built, its codes are prefix-free, and next_symbol on a stream that
\* starts with HUFFCODE[j] returns V[j] and consumes HUFFSIZE[j] bits.
C7_DecodeBijection ==
    ValidCounts(hs.L) =>
        /\ hs.pc # "panic"
        /\ hs.pc \in {"built", "decoded"} => PrefixFree(hs.sizes, hs.codes)
        /\ hs.pc = "decoded" => DecodedRight

\* C7 amended: the same for the tables that also satisfy Kraft's inequality
\* (every code fits its length) and do not assign the 16-bit all-ones code.
C7_DecodeBijectionPrefixCodes ==
    PrefixCounts(hs.L) =>
        /\ hs.pc # "panic"
        /\ hs.pc \in {"built", "decoded"} => PrefixFree(hs.sizes, hs.codes)
        /\ hs.pc = "decoded" => DecodedRight

\* C7 witness: a code of length 3 of a table with codes of three lengths has
\* been decoded.
C7_Witness ==
    /\ hs.pc = "decoded"
    /\ PrefixCounts(hs.L)
    /\ hs.L[1] = 1 /\ hs.L[2] = 1 /\ hs.L[3] = 2
    /\ hs.sizes[hs.j] = 3
    /\ hs.lead = 1
    /\ DecodedRight

-----------------------------------------------------------------------------
(* Magnitude bits and sign extension of decode_block: next_bits, then the   *)
(* conversion of the unsigned value to the signed coefficient.              *)

\* BitReader::next_bits for length <= 16: the value of the next `length` bits
\* (None when the data ends first; the bits read until then stay consumed)
\* and the reader after them.
RECURSIVE BitsLoop(_, _, _)
BitsLoop(r, n, bits) ==
    IF n = 0 THEN [bits |-> bits, r |-> r]
    ELSE LET b == next_bit(r)
         IN  IF b.bit = None THEN [bits |-> None, r |-> b.r]
             ELSE BitsLoop(b.r, n - 1, ((bits * 2) % 65536) + b.bit)

next_bits(r, length) == BitsLoop(r, length, 0)

\* The i16 of an integer, as wrapping arithmetic and `as i16` give it.
WrapI16(x) == ((x + 32768) % 65536) - 32768

\* A variant of SignExtend that subtracts 1 << length.
SignExtend_SubtractsPower(unsigned, length) ==
    IF unsigned < 2 ^ (length - 1) THEN unsigned - 2 ^ length ELSE unsigned

\* `coeff -= (1 << length) - 1` under `coeff < (1 << (length - 1))`, for the
\* lengths decode_block lets through (at most 11, so no i16 operation
\* overflows).
SignExtend(unsigned, length) ==
    IF unsigned < 2 ^ (length - 1) THEN unsigned - (2 ^ length - 1) ELSE unsigned

\* A variant of DCDifference without the test of the category.
DCDifference_AnyCategory(r, dc_coeff_length) ==
    LET nb == next_bits(r, dc_coeff_length)
    IN  IF nb.bits = None THEN [status |-> "panic", coeff |-> None, r |-> nb.r]
        ELSE [status |-> "some",
              coeff |-> IF dc_coeff_length > 0
                        THEN SignExtend(WrapI16(nb.bits), dc_coeff_length % 16)
                        ELSE WrapI16(nb.bits),
              r |-> nb.r]

\* The DC difference of decode_block for category dc_coeff_length: status is
\* "some" with the coefficient, or "panic" (category above 11, or the data
\* ends inside the magnitude bits).
DCDifference(r, dc_coeff_length) ==
    IF dc_coeff_length > 11 THEN [status |-> "panic", coeff |-> None, r |-> r]
    ELSE LET nb == next_bits(r, dc_coeff_length)
         IN  IF nb.bits = None THEN [status |-> "panic", coeff |-> None, r |-> nb.r]
             ELSE [status |-> "some",
                   coeff |-> IF dc_coeff_length > 0
                             THEN SignExtend(WrapI16(nb.bits), dc_coeff_length)
                             ELSE WrapI16(nb.bits),
                   r |-> nb.r]

\* The AC coefficient of decode_block for category ac_coeff_length: "panic"
\* above 10 or at the end of the data, "skip" for category 0 (nothing is read
\* and nothing is stored), "some" with the coefficient otherwise.
ACCoefficient(r, ac_coeff_length) ==
    IF ac_coeff_length > 10 THEN [status |-> "panic", coeff |-> None, r |-> r]
    ELSE IF ac_coeff_length > 0
    THEN LET nb == next_bits(r, ac_coeff_length)
         IN  IF nb.bits = None THEN [status |-> "panic", coeff |-> None, r |-> nb.r]
             ELSE [status |-> "some",
                   coeff |-> SignExtend(nb.bits, ac_coeff_length), r |-> nb.r]
    ELSE [status |-> "skip", coeff |-> 0, r |-> r]

MaxFullCategory == 4

\* The values of category s that are drawn: all of them for the small
\* categories, those around the sign boundary and the two ends for the rest.
RawValues(s) ==
    IF s <= MaxFullCategory THEN 0..(2 ^ s - 1)
    ELSE {0, 1, 2 ^ (s - 1) - 1, 2 ^ (s - 1), 2 ^ s - 2, 2 ^ s - 1}

ExtendInit ==
    /\ fr = LoopInit /\ rest = <<>> /\ nchunks = 0 /\ head2 = <<>>
    /\ eoi_read = FALSE
    /\ overflow_checks \in BOOLEAN
    /\ hs = Idle /\ sd = Idle /\ px = Idle /\ br = Idle
    /\ \E kind \in {"DC", "AC"} : \E s \in 0..16 : \E raw \in RawValues(s) :
          ex = [pc |-> "input", kind |-> kind, s |-> s, raw |-> raw]

\* The DC branch on a stream that holds the s bits of raw.
ExtendDC ==
    /\ ex.pc = "input" /\ ex.kind = "DC"
    /\ \E lead \in 0..MaxLead :
       \E data \in StreamsWith(lead, CodeBits(ex.raw, ex.s)) :
          ex' = [ex EXCEPT !.pc = "done"] @@
                [lead |-> lead, result |-> DCDifference(ReaderAt(data, lead), ex.s)]
    /\ UNCHANGED <<fr, rest, nchunks, overflow_checks, head2, eoi_read, hs, sd, px, br>>

\* The AC branch on a stream that holds the s bits of raw.
ExtendAC ==
    /\ ex.pc = "input" /\ ex.kind = "AC"
    /\ \E lead \in 0..MaxLead :
       \E data \in StreamsWith(lead, CodeBits(ex.raw, ex.s)) :
          ex' = [ex EXCEPT !.pc = "done"] @@
                [lead |-> lead, result |-> ACCoefficient(ReaderAt(data, lead), ex.s)]
    /\ UNCHANGED <<fr, rest, nchunks, overflow_checks, head2, eoi_read, hs, sd, px, br>>

ExtendNext == ExtendDC \/ ExtendAC

SpecExtend == ExtendInit /\ [][ExtendNext]_vars

\* EXTEND of T.81 F.2.2.1 and the category-s bits an encoder writes for a value.
EXTEND(raw, s) == IF s = 0 THEN 0 ELSE IF raw >= 2 ^ (s - 1) THEN raw ELSE raw - (2 ^ s - 1)

Unextend(v, s) == IF v < 0 THEN v + (2 ^ s - 1) ELSE v

\* The branch returned EXTEND(raw, s), having read exactly s bits, and the
\* inverse gives raw back.
ExtendedRight ==
    /\ ex.result.status \in {"some", "skip"}
    /\ ex.result.status = "skip" <=> (ex.kind = "AC" /\ ex.s = 0)
    /\ ex.result.coeff = EXTEND(ex.raw, ex.s)
    /\ Unextend(ex.result.coeff, ex.s) = ex.raw
    /\ BitPos(ex.result.r) = ex.lead + ex.s

\* The categories decode_block lets through.
CategoryAccepted == IF ex.kind = "DC" THEN ex.s <= 11 ELSE ex.s <= 10

\* C8 as stated: for every category s in 0..16 and every s-bit raw, block
\* decode yields EXTEND(raw, s) (0 with no bits read when s = 0), and the
\* inverse of EXTEND gives raw back.
C8_ExtendAllCategories == ex.pc = "done" => ExtendedRight

\* C8 amended: the same for the categories block decode accepts, 0..11 for a
\* DC difference and 0..10 for an AC coefficient; above them it fails.
C8_ExtendAcceptedCategories ==
    ex.pc = "done" =>
        IF CategoryAccepted THEN ExtendedRight ELSE ex.result.status = "panic"

\* C8 witness: a negative coefficient of the largest AC category was decoded
\* after one bit of lead, and a DC one of category 11 likewise.
C8_Witness ==
    /\ ex.pc = "done"
    /\ ex.lead = 1
    /\ \/ ex.kind = "AC" /\ ex.s = 10 /\ ex.raw = 511 /\ ex.result.coeff = -512
       \/ ex.kind = "DC" /\ ex.s = 11 /\ ex.raw = 1023 /\ ex.result.coeff = -1024
    /\ ExtendedRight

-----------------------------------------------------------------------------
(* Scan decode: decode_huffman_to_blocks with decode_block, one step per    *)
(* loop position, then partition_blocks_to_mcus, on frames that the byte    *)
(* loop builds from whole files.                                            *)

MaxACTokens == 2

\* The DC table of the files: codes 00, 01, 10, 110, 1110 for the categories
\* 0, 1, 2, 12, 11; no code begins with 1111.
DCCounts == <<0, 3, 1, 1>> \o Zeros(12)
DCValues == <<0, 1, 2, 12, 11>>

\* The AC table of the files: 00 EOB, 01 run 0 size 1, 10 run 1 size 2,
\* 110 ZRL, 1110 run 3 size 1, 11110 run 14 size 1, 111110 run 1 size 0,
\* 111111 run 0 size 11.
ACCounts == <<0, 3, 1, 1, 1, 2>> \o Zeros(10)
ACValues == <<0, 1, 18, 240, 49, 225, 16, 11>>

\* The tables a file may carry under another destination id: the same code
\* lengths with the first values in another order.
DCValuesAlt == <<2, 1, 0, 12, 11>>
ACValuesAlt == <<0, 18, 1, 240, 49, 225, 16, 11>>

\* The bits of the code a table with counts L and values V has for sym.
EncodeSymbol(L, V, sym) ==
    LET sizes == generate_size_table(L)
        codes == generate_code_table(sizes, FALSE).codes
        j == CHOOSE j \in 1..Len(V) : V[j] = sym
    IN  CodeBits(codes[j], sizes[j])

\* The bits of one AC token: the code of rs, then the size bits of raw.
TokenBits(t) == EncodeSymbol(ACCounts, ACValues, t.rs) \o CodeBits(t.raw, t.rs % 16)

RECURSIVE TokensBits(_)
TokensBits(ts) == IF ts = <<>> THEN <<>> ELSE TokenBits(Head(ts)) \o TokensBits(Tail(ts))

\* The bits of one block: the DC category and its bits, the AC tokens, and
\* EOB unless the tokens reach position 63.
BlockBits(b) ==
    EncodeSymbol(DCCounts, DCValues, b.cat) \o CodeBits(b.raw, b.cat)
    \o TokensBits(b.ac)
    \o (IF b.eob THEN EncodeSymbol(ACCounts, ACValues, 0) ELSE <<>>)

ACTokens ==
    {[rs |-> 1, raw |-> 1], [rs |-> 1, raw |-> 0], [rs |-> 18, raw |-> 1],
     [rs |-> 240, raw |-> 0], [rs |-> 49, raw |-> 1]}

DCTokens == {[cat |-> 0, raw |-> 0], [cat |-> 1, raw |-> 0], [cat |-> 2, raw |-> 3]}

\* A block whose tokens end at position 63, with no EOB.
FullBlockText ==
    [cat |-> 0, raw |-> 0, eob |-> FALSE,
     ac |-> <<[rs |-> 240, raw |-> 0], [rs |-> 240, raw |-> 0], [rs |-> 240, raw |-> 0],
              [rs |-> 49, raw |-> 1], [rs |-> 49, raw |-> 0], [rs |-> 49, raw |-> 1],
              [rs |-> 18, raw |-> 2], [rs |-> 1, raw |-> 0]>>]

BlockTexts ==
    {[cat |-> d.cat, raw |-> d.raw, eob |-> TRUE, ac |-> ts] :
        d \in DCTokens, ts \in UNION {[1..n -> ACTokens] : n \in 0..MaxACTokens}}
    \cup {FullBlockText}

\* The texts of the even blocks of a file.
FillTexts ==
    {[cat |-> 0, raw |-> 0, eob |-> TRUE, ac |-> <<>>],
     [cat |-> 1, raw |-> 1, eob |-> TRUE, ac |-> <<[rs |-> 1, raw |-> 1]>>]}

\* Blocks at the edges of what decode_block accepts: a DC category of 12, an
\* AC size of 11, a ZRL met at position 48, a run of 14 that reaches position
\* 63, a run of 3 met at position 61, a run of 1 with size 0 between two
\* coefficients, and a plain block.
ProbeTexts ==
    {[cat |-> 12, raw |-> 0, eob |-> TRUE, ac |-> <<>>],
     [cat |-> 1, raw |-> 1, eob |-> TRUE, ac |-> <<[rs |-> 11, raw |-> 1024]>>],
     [cat |-> 0, raw |-> 0, eob |-> FALSE,
      ac |-> <<[rs |-> 240, raw |-> 0], [rs |-> 240, raw |-> 0],
               [rs |-> 225, raw |-> 1], [rs |-> 240, raw |-> 0]>>],
     [cat |-> 0, raw |-> 0, eob |-> FALSE,
      ac |-> <<[rs |-> 240, raw |-> 0], [rs |-> 240, raw |-> 0],
               [rs |-> 240, raw |-> 0], [rs |-> 225, raw |-> 0]>>],
     [cat |-> 0, raw |-> 0, eob |-> FALSE,
      ac |-> <<[rs |-> 240, raw |-> 0], [rs |-> 240, raw |-> 0],
               [rs |-> 240, raw |-> 0], [rs |-> 49, raw |-> 1], [rs |-> 49, raw |-> 1],
               [rs |-> 49, raw |-> 1], [rs |-> 49, raw |-> 1]>>],
     [cat |-> 1, raw |-> 1, eob |-> TRUE,
      ac |-> <<[rs |-> 1, raw |-> 1], [rs |-> 16, raw |-> 0], [rs |-> 1, raw |-> 0]>>],
     [cat |-> 2, raw |-> 0, eob |-> TRUE, ac |-> <<[rs |-> 18, raw |-> 2]>>]}

\* A block whose DC difference is the largest of category 11.
DeepText == [cat |-> 11, raw |-> 2047, eob |-> TRUE, ac |-> <<>>]

\* Frame and scan layouts of the files: image size, frame components
\* <<Ci, Hi, Vi>>, the scan's component selectors, the restart interval of a
\* DRI segment (None: no segment), and the number of blocks the file lacks.
\* Further: the DHT and DQT tables in file order, <<destination id, 0 for the
\* tables above or their fill value, 1 for the other ones>> (a DQT fill value
\* of 0 stands for the bytes 1, 2, .., 64); the selectors
\* Td = Ta and Tq of every component; whether the bits are padded to a byte
\* before a restart interval and whether RST0 stands at the first such
\* boundary; the bits cut from the end of the data and the FF bytes appended
\* to it; and the block texts the file is written with.
Layout(X, Y, comps, scan, dri, missing) ==
    [X |-> X, Y |-> Y, comps |-> comps, scan |-> scan, dri |-> dri,
     missing |-> missing,
     dht |-> <<<<0, 0>>>>, sel |-> 0, dqt |-> <<<<0, 1>>>>, tq |-> 0,
     pad |-> TRUE, rst |-> FALSE, cut |-> 0, extra |-> 0, texts |-> "block"]

Gray(X, dri) == [Layout(X, 8, <<<<1, 1, 1>>>>, <<1>>, dri, 0) EXCEPT !.texts = "probe"]

\* A block of zeros: DC difference 0 and EOB.
FlatText == [cat |-> 0, raw |-> 0, eob |-> TRUE, ac |-> <<>>]

MaxWidthBlocks == 5

\* Images of 1..MaxWidthBlocks blocks in one direction whose first component
\* has a sampling factor of 1..4 in that direction, the other two 1.
SizedLayouts ==
    {[Layout(8 * k - 3, 8, <<<<1, h, 1>>, <<2, 1, 1>>, <<3, 1, 1>>>>, <<1, 2, 3>>, None, 0)
         EXCEPT !.texts = "flat"] : k \in 1..MaxWidthBlocks, h \in 1..4}
    \cup
    {[Layout(8, 8 * k - 3, <<<<1, 1, v>>, <<2, 1, 1>>, <<3, 1, 1>>>>, <<1, 2, 3>>, None, 0)
         EXCEPT !.texts = "flat"] : k \in 1..MaxWidthBlocks, v \in 2..4}

Layouts ==
    {Layout(8, 8, <<<<1, 1, 1>>>>, <<1>>, None, 0),
     Layout(16, 8, <<<<1, 1, 1>>>>, <<1>>, None, 0),
     Layout(8, 8, <<<<1, 1, 1>>, <<2, 1, 1>>, <<3, 1, 1>>>>, <<1, 2, 3>>, None, 0),
     Layout(16, 16, <<<<1, 2, 2>>, <<2, 1, 1>>, <<3, 1, 1>>>>, <<1, 2, 3>>, None, 0),
     Layout(24, 8, <<<<1, 2, 1>>, <<2, 1, 1>>, <<3, 1, 1>>>>, <<1, 2, 3>>, None, 0),
     Layout(8, 8, <<<<1, 1, 1>>, <<2, 1, 1>>, <<4, 1, 1>>>>, <<1, 2, 4>>, None, 0),
     Layout(8, 8, <<<<0, 1, 1>>, <<1, 1, 1>>, <<2, 1, 1>>>>, <<0, 1, 2>>, None, 0),
     Layout(16, 8, <<<<1, 1, 1>>>>, <<1>>, 1, 0),
     Layout(8, 8, <<<<1, 1, 1>>>>, <<1>>, 0, 0),
     Layout(16, 8, <<<<1, 1, 1>>>>, <<1>>, None, 1),
     \* edges of decode_block, without and with a restart interval
     Gray(8, None),
     Gray(24, 2),
     [Gray(16, 1) EXCEPT !.pad = FALSE],
     [Gray(16, 1) EXCEPT !.rst = TRUE],
     [Layout(16, 8, <<<<1, 1, 1>>, <<2, 1, 1>>, <<3, 1, 1>>>>, <<1, 2, 3>>, 1, 0)
         EXCEPT !.texts = "probe"],
     \* data that ends inside a block, and data of 1 bits only
     [Layout(8, 8, <<<<1, 1, 1>>>>, <<1>>, None, 0) EXCEPT !.cut = 3],
     [Gray(8, None) EXCEPT !.missing = 1, !.extra = 3],
     [Gray(8, None) EXCEPT !.texts = "deep", !.cut = 9],
     \* tables out of the order of their ids, and a table of id 1 alone
     [Gray(8, None) EXCEPT !.dht = <<<<1, 1>>, <<0, 0>>>>, !.dqt = <<<<1, 2>>, <<0, 1>>>>],
     [Gray(8, None) EXCEPT !.dht = <<<<1, 0>>>>, !.sel = 1, !.dqt = <<<<1, 1>>>>, !.tq = 1],
     \* a quantization table whose 64 bytes differ
     [Gray(8, None) EXCEPT !.dqt = <<<<0, 0>>>>],
     \* DC differences that add up beyond 16 bits
     [Gray(136, None) EXCEPT !.texts = "deep"]}
    \cup SizedLayouts

\* The texts of the odd and of the even blocks of a file of layout l.
OddTexts(l) ==
    CASE l.texts = "block" -> BlockTexts
      [] l.texts = "probe" -> ProbeTexts
      [] l.texts = "flat" -> {FlatText}
      [] OTHER -> {DeepText}

EvenTexts(l) ==
    CASE l.texts = "deep" -> {DeepText}
      [] l.texts = "flat" -> {FlatText}
      [] OTHER -> FillTexts

MaxOf(S) == CHOOSE x \in S : \A y \in S : y <= x

CeilDiv(a, b) == (a + b - 1) \div b

\* The MCUs of an image and the blocks of one MCU, as T.81 A.2 counts them.
ImageMCUs(l) ==
    CeilDiv(l.X, 8 * MaxOf({l.comps[i][2] : i \in 1..Len(l.comps)}))
    * CeilDiv(l.Y, 8 * MaxOf({l.comps[i][3] : i \in 1..Len(l.comps)}))

MCUBlocks(l) == SumSeq([i \in 1..Len(l.comps) |-> l.comps[i][2] * l.comps[i][3]])

PadToByte(bits) == bits \o Repeat(1, (8 - (Len(bits) % 8)) % 8)

\* The entropy-coded bits of the first n blocks: block k carries text a when
\* k is odd and b when it is even; with a restart interval the bits are padded
\* to a byte before each interval after the first, unless the layout says
\* otherwise.
RECURSIVE ImageBits(_, _, _, _)
ImageBits(l, a, b, k) ==
    IF k = 0 THEN <<>>
    ELSE LET mcu == (k - 1) \div MCUBlocks(l)
             starts == (k - 1) % MCUBlocks(l) = 0 /\ mcu > 0
                       /\ l.dri # None /\ l.dri > 0 /\ mcu % l.dri = 0
             before == ImageBits(l, a, b, k - 1)
         IN  (IF starts /\ l.pad THEN PadToByte(before) ELSE before)
             \o BlockBits(IF k % 2 = 1 THEN a ELSE b)

Be16(n) == <<n \div 256, n % 256>>

\* The DHT segments of a layout, a DC and an AC table per entry, and its DQT
\* segments.
RECURSIVE TableSegments(_)
TableSegments(dht) ==
    IF dht = <<>> THEN <<>>
    ELSE LET id == Head(dht)[1]
             dcv == IF Head(dht)[2] = 0 THEN DCValues ELSE DCValuesAlt
             acv == IF Head(dht)[2] = 0 THEN ACValues ELSE ACValuesAlt
         IN  <<255, DHT>> \o Be16(19 + Len(dcv)) \o TableBytes(id, DCCounts, dcv)
             \o <<255, DHT>> \o Be16(19 + Len(acv)) \o TableBytes(16 + id, ACCounts, acv)
             \o TableSegments(Tail(dht))

RECURSIVE QuantSegments(_)
QuantSegments(dqt) ==
    IF dqt = <<>> THEN <<>>
    ELSE <<255, DQT, 0, 67, Head(dqt)[1]>>
         \o (IF Head(dqt)[2] = 0 THEN [k \in 1..64 |-> k] ELSE Repeat(Head(dqt)[2], 64))
         \o QuantSegments(Tail(dqt))

\* The bytes of a baseline file of layout l up to and including the scan
\* header.
FileHead(l) ==
    LET nf == Len(l.comps)
        ns == Len(l.scan)
        sof == [i \in 1..(3 * nf) |->
                   LET c == l.comps[((i - 1) \div 3) + 1]
                   IN  CASE i % 3 = 1 -> c[1]
                         [] i % 3 = 2 -> 16 * c[2] + c[3]
                         [] OTHER -> l.tq]
        sos == [i \in 1..(2 * ns) |->
                   IF i % 2 = 1 THEN l.scan[((i - 1) \div 2) + 1] ELSE 17 * l.sel]
    IN  ChunkSOI \o QuantSegments(l.dqt)
        \o <<255, SOF0>> \o Be16(8 + 3 * nf) \o <<8>> \o Be16(l.Y) \o Be16(l.X)
        \o <<nf>> \o sof
        \o TableSegments(l.dht)
        \o (IF l.dri = None THEN <<>> ELSE <<255, DRI, 0, 4>> \o Be16(l.dri))
        \o <<255, SOS>> \o Be16(6 + 2 * ns) \o <<ns>> \o sos \o <<0, 63, 0>>

\* The rest of the file: the entropy-coded bytes of blocks that carry a and
\* b, RST0 between the first two restart intervals if the layout has it, and
\* EOI.
FileScan(l, a, b) ==
    LET n == ImageMCUs(l) * MCUBlocks(l) - l.missing
        all == ImageBits(l, a, b, n)
        kept == SubSeq(all, 1, Len(all) - l.cut)
        bits == PadToByte(kept) \o Repeat(1, 8 * l.extra)
        first == IF l.rst THEN Len(PadToByte(ImageBits(l, a, b, l.dri * MCUBlocks(l))))
                 ELSE 0
    IN  (IF l.rst
         THEN Stuff(PackBytes(SubSeq(bits, 1, first))) \o <<255, RST0>>
         ELSE <<>>)
        \o Stuff(PackBytes(SubSeq(bits, first + 1, Len(bits))))
        \o ChunkEOI

\* The zigzag map of decode_huffman_to_blocks: natural index of position k.
zigzag ==
    <<0,  1,  8,  16, 9,  2,  3,  10,
      17, 24, 32, 25, 18, 11, 4,  5,
      12, 19, 26, 33, 40, 48, 41, 34,
      27, 20, 13, 6,  7,  14, 21, 28,
      35, 42, 49, 56, 57, 50, 43, 36,
      29, 22, 15, 23, 30, 37, 44, 51,
      58, 59, 52, 45, 38, 31, 39, 46,
      53, 60, 61, 54, 47, 55, 62, 63>>

\* [0; 64]
ZeroBlock == Zeros(64)

\* A variant of StoreCoefficient that stores one zigzag position later.
StoreCoefficient_NextPosition(data_block, ac_counter, ac_coeff) ==
    [data_block EXCEPT ![zigzag[((ac_counter + 1) % 64) + 1] + 1] = ac_coeff]

\* data_block[zigzag_map[ac_counter]] = ac_coeff
StoreCoefficient(data_block, ac_counter, ac_coeff) ==
    [data_block EXCEPT ![zigzag[ac_counter + 1] + 1] = ac_coeff]

\* The start of decode_block: the DC category, the difference and
\* data_block[0] = dc_coeff + prev_dc, an i16 sum.  status is "ac" (the AC
\* loop is next) or "panic".
DecodeBlockDC(r, dc, prev_dc, oc) ==
    LET sym == next_symbol(r, dc)
    IN  IF sym.status # "some"
        THEN [status |-> "panic", data_block |-> ZeroBlock, r |-> sym.r]
        ELSE LET d == DCDifference(sym.r, sym.symbol)
             IN  IF d.status # "some"
                    \/ (oc /\ WrapI16(d.coeff + prev_dc) # d.coeff + prev_dc)
                 THEN [status |-> "panic", data_block |-> ZeroBlock, r |-> d.r]
                 ELSE [status |-> "ac",
                       data_block |-> [ZeroBlock EXCEPT
                                          ![1] = WrapI16(d.coeff + prev_dc)],
                       r |-> d.r]

\* A variant of DecodeBlockACPass that does not add the run of zeros of a
\* symbol of size 0 to ac_counter.
DecodeBlockACPass_RunNotAdded(r, ac, data_block, ac_counter) ==
    LET sym == next_symbol(r, ac)
        same(st, rd) == [status |-> st, data_block |-> data_block,
                         ac_counter |-> ac_counter, r |-> rd]
    IN  IF sym.status # "some" THEN same("panic", sym.r)
        ELSE IF sym.symbol = 0 THEN same("eob", sym.r)
        ELSE LET preceeding_zeros == IF sym.symbol = 240 THEN 16
                                     ELSE Hi4(sym.symbol)
                 k == ac_counter + preceeding_zeros
                 c == ACCoefficient(sym.r, sym.symbol % 16)
             IN  IF k >= 64 THEN same("panic", sym.r)
                 ELSE IF c.status = "panic" THEN same("panic", c.r)
                 ELSE IF c.status = "skip" THEN same("more", c.r)
                 ELSE [status |-> "more",
                       data_block |-> StoreCoefficient(data_block, k, c.coeff),
                       ac_counter |-> k + 1, r |-> c.r]

\* One pass of the AC loop of decode_block, entered with ac_counter < 64.
\* status is "eob" (the block is returned as it is), "more" (the pass is
\* over), or "panic".
DecodeBlockACPass(r, ac, data_block, ac_counter) ==
    LET sym == next_symbol(r, ac)
        same(st, rd) == [status |-> st, data_block |-> data_block,
                         ac_counter |-> ac_counter, r |-> rd]
    IN  IF sym.status # "some" THEN same("panic", sym.r)
        ELSE IF sym.symbol = 0 THEN same("eob", sym.r)
        ELSE LET preceeding_zeros == IF sym.symbol = 240 THEN 16
                                     ELSE Hi4(sym.symbol)
                 k == ac_counter + preceeding_zeros
                 c == ACCoefficient(sym.r, sym.symbol % 16)
             IN  IF k >= 64 THEN same("panic", sym.r)
                 ELSE IF c.status = "panic" THEN same("panic", c.r)
                 ELSE IF c.status = "skip"
                 THEN [status |-> "more", data_block |-> data_block,
                       ac_counter |-> k, r |-> c.r]
                 ELSE [status |-> "more",
                       data_block |-> StoreCoefficient(data_block, k, c.coeff),
                       ac_counter |-> k + 1, r |-> c.r]

\* BitReader::align
align(r) ==
    IF r.byte_idx + 1 >= Len(r.data) \/ r.bit_idx = 0 THEN r
    ELSE [r EXCEPT !.bit_idx = 0, !.byte_idx = @ + 1]

\* The component of one MCU that partition_blocks_to_mcus builds for a frame
\* component: mcu_size zero blocks, those at cb_y * max_horizontal_factor +
\* cb_x replaced by the blocks from index first on, in the order of the two
\* loops.
PartitionComponent(blocks, first, fc, mcu_size, max_horizontal_factor) ==
    [i \in 1..mcu_size |->
        LET cb_y == (i - 1) \div max_horizontal_factor
            cb_x == (i - 1) % max_horizontal_factor
        IN  IF cb_y < fc.vertical_sample_factor /\ cb_x < fc.horizontal_sample_factor
            THEN blocks[first + cb_y * fc.horizontal_sample_factor + cb_x + 1]
            ELSE ZeroBlock]

\* partition_blocks_to_mcus: frame components without blocks are skipped;
\* blocks[blocks_idx] panics past the end of blocks.  blocks_idx is the number
\* of blocks read.
partition_blocks_to_mcus(blocks, total_mcus, max_vertical_factor, max_horizontal_factor, frame_components) ==
    LET mcu_size == max_vertical_factor * max_horizontal_factor
        count(fc) == fc.horizontal_sample_factor * fc.vertical_sample_factor
        kept == SelectSeq(frame_components, LAMBDA fc : count(fc) # 0)
        per_mcu == SumSeq([c \in 1..Len(kept) |-> count(kept[c])])
        first(m, c) == (m - 1) * per_mcu
                       + SumSeq([d \in 1..(c - 1) |-> count(kept[d])])
    IN  IF total_mcus * per_mcu > Len(blocks)
        THEN [ok |-> FALSE, mcus |-> <<>>, blocks_idx |-> Len(blocks)]
        ELSE [ok |-> TRUE,
              mcus |-> [m \in 1..total_mcus |->
                          [c \in 1..Len(kept) |->
                              PartitionComponent(blocks, first(m, c), kept[c],
                                                 mcu_size, max_horizontal_factor)]],
              blocks_idx |-> total_mcus * per_mcu]

\* The locals of main after the byte loop and of decode_huffman_to_blocks,
\* decode_block and partition_blocks_to_mcus, before any of them is set.
ScanLocals(frame) ==
    [pc |-> "loaded", frame |-> frame,
     width_blocks |-> 0, height_blocks |-> 0,
     width_blocks_padding |-> 0, height_blocks_padding |-> 0,
     max_vertical_factor |-> 1, max_horizontal_factor |-> 1,
     total_mcus |-> 0, blocks_per_component |-> Zeros(4),
     blocks |-> <<>>, scan_idx |-> 0, prev_dc |-> <<>>,
     bit_reader |-> BitReader_new(<<>>), mcu_idx |-> 0, restart |-> FALSE,
     sc_idx |-> 0, cid |-> 0, block_n |-> 0,
     data_block |-> ZeroBlock, ac_counter |-> 0,
     mcus |-> <<>>, blocks_idx |-> 0,
     file_scan |-> <<>>, owners |-> <<>>, interval_start |-> 0]

\* The frame the byte loop has built when a file of the layouts ends.
ScanInit ==
    /\ rest = <<>> /\ nchunks = 0 /\ head2 = ChunkSOI /\ eoi_read = TRUE
    /\ overflow_checks \in BOOLEAN
    /\ hs = Idle /\ ex = Idle /\ px = Idle /\ br = Idle
    /\ \E l \in Layouts :
       \E head \in {Feed(LoopInit, FileHead(l), overflow_checks)} :
       \E a \in OddTexts(l) : \E b \in EvenTexts(l) :
       \E tail \in {FileScan(l, a, b)} :
          /\ fr = [Feed(head, tail, overflow_checks) EXCEPT !.outcome = "decoding"]
          /\ sd = [ScanLocals(fr.frame) EXCEPT !.file_scan = tail]

ScanFramerUnchanged ==
    UNCHANGED <<fr, rest, nchunks, overflow_checks, head2, eoi_read, hs, ex, px, br>>

ScanPanic == sd' = [sd EXCEPT !.pc = "panic"]

\* main after the byte loop: the sampling maxima and the block counts, then
\* the start of decode_huffman_to_blocks: total_mcus, a u16 product, and
\* blocks_per_component, which has four slots.
BeginDecode ==
    /\ sd.pc = "loaded"
    /\ LET fh == sd.frame.frame_header
           n == Len(fh.components)
           maxv == MaxOf({1} \cup {fh.components[i].vertical_sample_factor : i \in 1..n})
           maxh == MaxOf({1} \cup {fh.components[i].horizontal_sample_factor : i \in 1..n})
           wb == (fh.total_horizontal_lines + 7) \div 8
           hb == (fh.total_vertical_lines + 7) \div 8
           wpad == wb % maxh
           hpad == hb % maxv
           total == ((wb + wpad) \div maxh) * ((hb + hpad) \div maxv)
       IN  IF \/ n > 4
              \/ overflow_checks /\ (fh.total_horizontal_lines + 7 > 65535
                                     \/ fh.total_vertical_lines + 7 > 65535
                                     \/ total > 65535)
           THEN ScanPanic
           ELSE sd' = [sd EXCEPT
                    !.pc = "scan",
                    !.width_blocks = ((fh.total_horizontal_lines + 7) % 65536) \div 8,
                    !.height_blocks = ((fh.total_vertical_lines + 7) % 65536) \div 8,
                    !.width_blocks_padding = wpad,
                    !.height_blocks_padding = hpad,
                    !.max_vertical_factor = maxv,
                    !.max_horizontal_factor = maxh,
                    !.total_mcus = total % 65536,
                    !.blocks_per_component =
                        [i \in 1..4 |->
                            IF i <= n
                            THEN fh.components[i].vertical_sample_factor
                                 * fh.components[i].horizontal_sample_factor
                            ELSE 0],
                    !.blocks = <<>>, !.scan_idx = 0]
    /\ ScanFramerUnchanged

\* `for scan in frame.scans.iter()`: the predictors, the reader and mcu_idx
\* of the next scan, or the return of blocks after the last one.
StartScan ==
    /\ sd.pc = "scan"
    /\ IF sd.scan_idx >= Len(sd.frame.scans)
       THEN sd' = [sd EXCEPT !.pc = "scanned"]
       ELSE sd' = [sd EXCEPT
                !.pc = "mcu",
                !.prev_dc = Zeros(sd.frame.frame_header.total_components),
                !.bit_reader = BitReader_new(
                    sd.frame.scans[sd.scan_idx + 1].entropy_coded_segments),
                !.mcu_idx = 0,
                !.interval_start = Len(sd.blocks)]
    /\ ScanFramerUnchanged

\* `while mcu_idx < total_mcus` and the restart test, whose remainder panics
\* on an interval of 0; after the last MCU the next scan.  interval_start
\* records the number of blocks decoded before the MCU that restart is true
\* for.
LoopMCU ==
    /\ sd.pc = "mcu"
    /\ LET ri == sd.frame.restart_interval
       IN  IF sd.mcu_idx >= sd.total_mcus
           THEN sd' = [sd EXCEPT !.pc = "scan", !.scan_idx = @ + 1]
           ELSE IF ri # <<>> /\ ri[1].interval = 0 THEN ScanPanic
           ELSE sd' = [sd EXCEPT
                    !.pc = "component",
                    !.restart = (ri # <<>> /\ sd.mcu_idx % ri[1].interval = 0),
                    !.sc_idx = 0,
                    !.interval_start =
                        IF ri # <<>> /\ sd.mcu_idx % ri[1].interval = 0
                        THEN Len(sd.blocks) ELSE @]
    /\ ScanFramerUnchanged

\* `for sc in scan.scan_header.components.iter()`: cid = sc.id - 1 (an id of
\* 0 panics, on the subtraction or on the first index with the wrapped
\* value), the predictor reset and align() of a restart, and the bound
\* blocks_per_component[cid]; after the last component mcu_idx += 1.
NextComponent ==
    /\ sd.pc = "component"
    /\ LET comps == sd.frame.scans[sd.scan_idx + 1].scan_header.components
       IN  IF sd.sc_idx >= Len(comps)
           THEN sd' = [sd EXCEPT !.pc = "mcu", !.mcu_idx = @ + 1]
           ELSE LET cid == comps[sd.sc_idx + 1].id - 1
                IN  IF \/ cid < 0
                       \/ sd.restart /\ cid >= Len(sd.prev_dc)
                       \/ cid >= 4
                    THEN ScanPanic
                    ELSE sd' = [sd EXCEPT
                             !.pc = "block",
                             !.cid = cid,
                             !.block_n = 0,
                             !.prev_dc = IF sd.restart
                                         THEN [@ EXCEPT ![cid + 1] = 0] ELSE @,
                             !.bit_reader = IF sd.restart THEN align(@) ELSE @]
    /\ ScanFramerUnchanged

\* `for _ in 0..blocks_per_component[cid]`: the arguments of decode_block
\* (prev_dc[cid] and the two tables, found by position) and its DC part;
\* after the last block the next scan component.
DecodeDC ==
    /\ sd.pc = "block"
    /\ LET sc == sd.frame.scans[sd.scan_idx + 1].scan_header.components[sd.sc_idx + 1]
       IN  IF sd.block_n >= sd.blocks_per_component[sd.cid + 1]
           THEN sd' = [sd EXCEPT !.pc = "component", !.sc_idx = @ + 1]
           ELSE IF \/ sd.cid >= Len(sd.prev_dc)
                   \/ sc.dc_entropy_table_dest >= Len(sd.frame.dc_huffman_tables)
                   \/ sc.ac_entropy_table_dest >= Len(sd.frame.ac_huffman_tables)
           THEN ScanPanic
           ELSE LET d == DecodeBlockDC(sd.bit_reader,
                             sd.frame.dc_huffman_tables[sc.dc_entropy_table_dest + 1],
                             sd.prev_dc[sd.cid + 1], overflow_checks)
                IN  sd' = [sd EXCEPT
                             !.pc = d.status,
                             !.bit_reader = d.r,
                             !.data_block = d.data_block,
                             !.ac_counter = 1]
    /\ ScanFramerUnchanged

\* One pass of the AC loop of decode_block.  At EOB, or when the pass leaves
\* ac_counter at 64, decode_block returns: prev_dc[cid] = block[0] and
\* blocks.push(block).  owners records the id of the scan component the
\* block was decoded for.
DecodeAC ==
    /\ sd.pc = "ac"
    /\ LET sc == sd.frame.scans[sd.scan_idx + 1].scan_header.components[sd.sc_idx + 1]
           a == DecodeBlockACPass(sd.bit_reader,
                    sd.frame.ac_huffman_tables[sc.ac_entropy_table_dest + 1],
                    sd.data_block, sd.ac_counter)
       IN  IF a.status = "panic"
           THEN sd' = [sd EXCEPT !.pc = "panic", !.bit_reader = a.r]
           ELSE IF a.status = "eob" \/ a.ac_counter >= 64
           THEN sd' = [sd EXCEPT
                    !.pc = "block",
                    !.bit_reader = a.r,
                    !.data_block = a.data_block,
                    !.ac_counter = a.ac_counter,
                    !.prev_dc = [@ EXCEPT ![sd.cid + 1] = a.data_block[1]],
                    !.blocks = Append(@, a.data_block),
                    !.owners = Append(@, sc.id),
                    !.block_n = @ + 1]
           ELSE sd' = [sd EXCEPT
                    !.bit_reader = a.r,
                    !.data_block = a.data_block,
                    !.ac_counter = a.ac_counter]
    /\ ScanFramerUnchanged

\* partition_blocks_to_mcus on the blocks of the scans.
Partition ==
    /\ sd.pc = "scanned"
    /\ LET q == partition_blocks_to_mcus(sd.blocks, sd.total_mcus,
                    sd.max_vertical_factor, sd.max_horizontal_factor,
                    sd.frame.frame_header.components)
       IN  sd' = [sd EXCEPT !.pc = IF q.ok THEN "partitioned" ELSE "panic",
                            !.mcus = q.mcus,
                            !.blocks_idx = q.blocks_idx]
    /\ ScanFramerUnchanged

\* dequantize_block: 64 i16 products in the order of the table's bytes.
dequantize_block(block, qt) == [i \in 1..64 |-> WrapI16(block[i] * qt.elements[i])]

\* dequantize: for every frame component with blocks the table at position
\* quantization_table_selector of quantization_tables and the component at
\* position id - 1 of the MCU; ok is FALSE when an index is out of range or,
\* with overflow checks, a product leaves i16.
dequantize(mcus, frame_components, quantization_tables, max_vertical_factor, max_horizontal_factor, oc) ==
    LET mcu_size == max_vertical_factor * max_horizontal_factor
        kept == SelectSeq(frame_components,
                    LAMBDA fc : fc.horizontal_sample_factor * fc.vertical_sample_factor # 0)
        inside(fc, i) ==
            /\ (i - 1) \div max_horizontal_factor < fc.vertical_sample_factor
            /\ (i - 1) % max_horizontal_factor < fc.horizontal_sample_factor
        bad(mcu, fc) ==
            \/ fc.quantization_table_selector >= Len(quantization_tables)
            \/ fc.id - 1 < 0
            \/ fc.id - 1 >= Len(mcu)
            \/ oc /\ \E i \in 1..mcu_size : inside(fc, i) /\
                    LET qt == quantization_tables[fc.quantization_table_selector + 1]
                    IN  dequantize_block(mcu[fc.id][i], qt)
                            # [j \in 1..64 |-> mcu[fc.id][i][j] * qt.elements[j]]
    IN  IF \E m \in 1..Len(mcus) : \E c \in 1..Len(kept) : bad(mcus[m], kept[c])
        THEN [ok |-> FALSE, mcus |-> <<>>]
        ELSE [ok |-> TRUE,
              mcus |-> [m \in 1..Len(mcus) |->
                          [c \in 1..Len(kept) |->
                              [i \in 1..mcu_size |->
                                  IF inside(kept[c], i)
                                  THEN dequantize_block(mcus[m][kept[c].id][i],
                                           quantization_tables[
                                               kept[c].quantization_table_selector + 1])
                                  ELSE ZeroBlock]]]]

\* dequantize on the MCUs of partition_blocks_to_mcus.
Dequantize ==
    /\ sd.pc = "partitioned"
    /\ LET q == dequantize(sd.mcus, sd.frame.frame_header.components,
                    sd.frame.quantization_tables,
                    sd.max_vertical_factor, sd.max_horizontal_factor,
                    overflow_checks)
       IN  sd' = [sd EXCEPT !.pc = IF q.ok THEN "dequantized" ELSE "panic",
                            !.mcus = IF q.ok THEN q.mcus ELSE @]
    /\ ScanFramerUnchanged

ScanNext ==
    \/ BeginDecode
    \/ StartScan
    \/ LoopMCU
    \/ NextComponent
    \/ DecodeDC
    \/ DecodeAC
    \/ Partition
    \/ Dequantize

SpecScan == ScanInit /\ [][ScanNext]_vars

\* The AC table and the block count of the scan component being decoded.
CurrentACTable ==
    sd.frame.ac_huffman_tables[
        sd.frame.scans[sd.scan_idx + 1].scan_header.components[sd.sc_idx + 1]
            .ac_entropy_table_dest + 1]

\* The AC loop is about to decode the symbol 00.
MeetsEOB ==
    /\ sd.pc = "ac"
    /\ LET sym == next_symbol(sd.bit_reader, CurrentACTable)
       IN  sym.status = "some" /\ sym.symbol = 0

\* The coefficient of a block at zigzag position z.
AtZigzag(block, z) == block[zigzag[z + 1] + 1]

\* C9: when the AC loop meets EOB at zigzag position k = ac_counter, the
\* block that decode_block returns (the one appended to blocks) holds 0 at
\* the natural index of every zigzag position k..63, holds the coefficients
\* decoded before at the positions below k, and the reader stands right
\* after the EOB code: no further bit was read for the block.
C9_EOBEndsBlock ==
    [][MeetsEOB =>
        LET k == sd.ac_counter
            block == sd'.blocks[Len(sd'.blocks)]
        IN  /\ sd'.pc = "block"
            /\ Len(sd'.blocks) = Len(sd.blocks) + 1
            /\ \A z \in k..63 : AtZigzag(block, z) = 0
            /\ \A z \in 0..(k - 1) : AtZigzag(block, z) = AtZigzag(sd.data_block, z)
            /\ BitPos(sd'.bit_reader)
                   = BitPos(sd.bit_reader) + Len(EncodeSymbol(ACCounts, ACValues, 0))
    ]_vars

\* C9 witness: a block was returned at an EOB met at position 4, after the
\* DC coefficient 3 and the AC coefficients -2 and 1 at positions 2 and 3.
C9_Witness ==
    /\ sd.pc = "block"
    /\ Len(sd.blocks) = 1
    /\ sd.ac_counter = 4
    /\ AtZigzag(sd.blocks[1], 0) = 3
    /\ AtZigzag(sd.blocks[1], 2) = -2
    /\ AtZigzag(sd.blocks[1], 3) = 1
    /\ \A z \in 4..63 : AtZigzag(sd.blocks[1], z) = 0

\* The sum of Hi * Vi over the frame components.
FrameBlocksPerMCU ==
    LET c == sd.frame.frame_header.components
    IN  SumSeq([i \in 1..Len(c) |->
                   c[i].horizontal_sample_factor * c[i].vertical_sample_factor])

\* C10: when the MCU loop of the scan stands before MCU mcu_idx, the decoder
\* has emitted mcu_idx times the sum of Hi * Vi blocks; after the scan the
\* block list holds total_mcus times that sum, and partition_blocks_to_mcus
\* has read every one of them.
C10_BlocksPerMCU ==
    /\ sd.pc = "mcu" => Len(sd.blocks) = sd.mcu_idx * FrameBlocksPerMCU
    /\ sd.pc = "scanned" => Len(sd.blocks) = sd.total_mcus * FrameBlocksPerMCU
    /\ sd.pc = "partitioned" => sd.blocks_idx = Len(sd.blocks)

-----------------------------------------------------------------------------
(* Length-prefixed segments in the byte loop *)

MaxPayload == 2

\* The byte loop is reading and expects the first byte of a marker.
AtMarkerStart ==
    /\ fr.outcome = "reading"
    /\ fr.stage = "Marker"
    /\ fr.current_marker_bytes = <<None, None>>

\* C17: from a marker start, a COM or APP0 segment with length field
\* Lseg = n + 2, n >= 0, is collected with exactly its n payload bytes and
\* stored once, and the byte after the payload is read as the first byte of
\* the next marker; after an SOS segment the next byte is scan data.
C17_SegmentLengthExact ==
    AtMarkerStart =>
        /\ \A n \in 0..MaxPayload : \A m \in {COM, APP0} :
              LET payload == Repeat(65, n)
                  t == Feed(fr, <<255, m>> \o Be16(n + 2) \o payload \o <<255>>,
                            overflow_checks)
              IN  /\ t.outcome = "reading"
                  /\ t.stage = "Marker"
                  /\ t.current_marker_bytes = <<255, None>>
                  /\ t.segment_data = <<>>
                  /\ m = COM =>
                        t.frame = [fr.frame EXCEPT !.comments =
                            Append(@, [length |-> n, comment_bytes |-> payload])]
                  /\ m = APP0 =>
                        t.frame = [fr.frame EXCEPT !.application_data =
                            Append(@, [marker |-> m, length |-> n,
                                       application_data |-> payload])]
        /\ LET t == Feed(fr, ChunkSOS \o <<18>>, overflow_checks)
           IN  /\ t.outcome = "reading"
               /\ t.stage = "Scan"
               /\ Len(t.frame.scans) = Len(fr.frame.scans) + 1
               /\ Ecs(t) = <<18>>

-----------------------------------------------------------------------------
(* Restart intervals in decode_huffman_to_blocks *)

\* The scan component whose blocks are being decoded.
CurrentScanComponent ==
    sd.frame.scans[sd.scan_idx + 1].scan_header.components[sd.sc_idx + 1]

\* decode_block is about to be called for the first block of a scan
\* component in an MCU whose index is a positive multiple of the restart
\* interval.
AtRestartBlock ==
    /\ sd.pc = "block"
    /\ sd.block_n = 0
    /\ sd.block_n < sd.blocks_per_component[sd.cid + 1]
    /\ sd.restart
    /\ sd.mcu_idx > 0

\* C11: with a restart interval R > 0, when the first block of an MCU whose
\* index is a positive multiple of R starts decoding, the reader stands at
\* bit 0 of a byte, whatever its position was before, and every component
\* starts its first block of that MCU with a DC predictor of 0.
C11_RestartResetsAndAligns ==
    AtRestartBlock =>
        /\ sd.prev_dc[sd.cid + 1] = 0
        /\ sd.sc_idx = 0 => sd.bit_reader.bit_idx = 0

\* The bytes FF m stand somewhere in bytes.
HasMarker(bytes, m) ==
    \E i \in 1..(Len(bytes) - 1) : bytes[i] = 255 /\ bytes[i + 1] = m

\* RSTn of the boundary before MCU mcu_idx: n = (mcu_idx / R - 1) mod 8.
ExpectedRST ==
    RST0 + (((sd.mcu_idx \div sd.frame.restart_interval[1].interval) - 1) % 8)

\* C16: the decoder goes on to the first block of an MCU whose index is a
\* positive multiple of R only if the scan data of the file carries the
\* marker RSTn, n = (index / R - 1) mod 8, for that boundary; otherwise it
\* fails.
C16_RestartMarkerChecked ==
    (AtRestartBlock /\ sd.sc_idx = 0) => HasMarker(sd.file_scan, ExpectedRST)

-----------------------------------------------------------------------------
(* Errors of decode_block *)

\* The bits a reader has not consumed.
RemainingBits(r) ==
    [i \in 1..(8 * Len(r.data) - BitPos(r)) |->
        LET p == BitPos(r) + i - 1
        IN  (r.data[(p \div 8) + 1] \div (2 ^ (7 - (p % 8)))) % 2]

\* The code words of a table with their symbols, as T.81 Annex C assigns
\* them to the counts and values of the DHT segment.
CodeBook(hf) ==
    LET sizes == generate_size_table(hf.huffman_size_lengths)
        codes == generate_code_table(sizes, FALSE).codes
    IN  {[bits |-> CodeBits(codes[j], sizes[j]), symbol |-> hf.huffman_values[j]] :
            j \in 1..Len(hf.huffman_values)}

IsPrefix(c, bits) == Len(c) <= Len(bits) /\ SubSeq(bits, 1, Len(c)) = c

\* The bits do not begin with a code word of the table: they end inside one,
\* or 16 bits resolve to none.
NoCodeWord(hf, bits) == \A e \in CodeBook(hf) : ~IsPrefix(e.bits, bits)

\* The bits begin with the code word of a symbol whose size is above limit.
SizeAbove(hf, bits, limit) ==
    \E e \in CodeBook(hf) : IsPrefix(e.bits, bits) /\ e.symbol % 16 > limit

\* The bits begin with a code word and end before the size bits it calls for.
EndsInValue(hf, bits, limit) ==
    \E e \in CodeBook(hf) :
        /\ IsPrefix(e.bits, bits)
        /\ e.symbol % 16 <= limit
        /\ Len(bits) - Len(e.bits) < e.symbol % 16

\* decode_block is about to read a DC symbol, or an AC symbol.
AtDCSymbol ==
    /\ sd.pc = "block"
    /\ sd.block_n < sd.blocks_per_component[sd.cid + 1]
    /\ sd.cid < Len(sd.prev_dc)
    /\ CurrentScanComponent.dc_entropy_table_dest < Len(sd.frame.dc_huffman_tables)
    /\ CurrentScanComponent.ac_entropy_table_dest < Len(sd.frame.ac_huffman_tables)

AtACSymbol == sd.pc = "ac"

CurrentDCTable ==
    sd.frame.dc_huffman_tables[CurrentScanComponent.dc_entropy_table_dest + 1]

\* The data ahead of the reader makes the block an error: no code word, a DC
\* category above 11 (the DC symbol is the category), an AC size above 10,
\* or an end of the data inside the bits of the value.
BlockErrorAhead ==
    LET bits == RemainingBits(sd.bit_reader)
    IN  \/ /\ AtDCSymbol
           /\ \/ NoCodeWord(CurrentDCTable, bits)
              \/ \E e \in CodeBook(CurrentDCTable) : IsPrefix(e.bits, bits) /\ e.symbol > 11
              \/ EndsInValue(CurrentDCTable, bits, 11)
        \/ /\ AtACSymbol
           /\ \/ NoCodeWord(CurrentACTable, bits)
              \/ SizeAbove(CurrentACTable, bits, 10)
              \/ EndsInValue(CurrentACTable, bits, 10)

\* C15: when the data ends early, when no Huffman code resolves within 16
\* bits, when a DC category is above 11 or an AC size above 10, the decode of
\* the block stops with an error: the decoder aborts, no block is emitted for
\* it, and nothing runs after the abort.
C15_BlockErrorsAbort ==
    [][/\ sd.pc # "panic"
       /\ BlockErrorAhead => (sd'.pc = "panic" /\ sd'.blocks = sd.blocks)
    ]_vars

\* C15 witness: the decoder has aborted in the first block of a file whose
\* data is three bytes FF, after 17 bits that resolve to no DC code.
C15_Witness ==
    /\ sd.pc = "panic"
    /\ sd.file_scan = <<255, 0, 255, 0, 255, 0>> \o ChunkEOI
    /\ sd.blocks = <<>>
    /\ BitPos(sd.bit_reader) = 17

-----------------------------------------------------------------------------
(* Table selection *)

\* The table at position dest of tables, as `.get(dest as usize)` and
\* `tables[dest]` find it, is there and carries the destination id dest.
FoundById(tables, dest) ==
    /\ dest < Len(tables)
    /\ tables[dest + 1].destination_id = dest

\* A table of destination id dest was defined by a DHT or DQT segment.
Defined(tables, dest) == \E i \in 1..Len(tables) : tables[i].destination_id = dest

\* decode_block is about to be called for a block of the current component.
BlockPending ==
    /\ sd.pc = "block"
    /\ sd.block_n < sd.blocks_per_component[sd.cid + 1]
    /\ sd.cid < Len(sd.prev_dc)

\* C18: whatever the order in which the DHT and DQT segments define their
\* tables and whichever ids they define, a block is decoded with the DC
\* table whose destination id is Td and the AC table whose id is Ta, and
\* dequantized with the table whose id is Tqi.
C18_TablesByDestinationId ==
    /\ BlockPending =>
          LET sc == CurrentScanComponent
          IN  /\ Defined(sd.frame.dc_huffman_tables, sc.dc_entropy_table_dest)
                    => FoundById(sd.frame.dc_huffman_tables, sc.dc_entropy_table_dest)
              /\ Defined(sd.frame.ac_huffman_tables, sc.ac_entropy_table_dest)
                    => FoundById(sd.frame.ac_huffman_tables, sc.ac_entropy_table_dest)
    /\ sd.pc = "partitioned" =>
          \A i \in 1..Len(sd.frame.frame_header.components) :
              LET fc == sd.frame.frame_header.components[i]
              IN  Defined(sd.frame.quantization_tables, fc.quantization_table_selector)
                    => FoundById(sd.frame.quantization_tables,
                                 fc.quantization_table_selector)

-----------------------------------------------------------------------------
(* DC prediction *)

\* The number a sequence of bits spells, most significant bit first.
BitsValue(bs) == SumSeq([i \in 1..Len(bs) |-> bs[i] * 2 ^ (Len(bs) - i)])

\* The DC difference the bits ahead of the reader encode: the category of the
\* code word they begin with and EXTEND of the bits that follow it.
DiffAhead ==
    LET bits == RemainingBits(sd.bit_reader)
        e == CHOOSE e \in CodeBook(CurrentDCTable) : IsPrefix(e.bits, bits)
    IN  EXTEND(BitsValue(SubSeq(bits, Len(e.bits) + 1, Len(e.bits) + e.symbol)),
               e.symbol)

\* The DC coefficient of the last block decoded for the scan component of
\* identifier id since the scan or the restart interval began, or 0 if there
\* is none.
PreviousDC(id) ==
    LET js == {j \in (sd.interval_start + 1)..Len(sd.blocks) : sd.owners[j] = id}
    IN  IF js = {} THEN 0 ELSE sd.blocks[MaxOf(js)][1]

\* C19: the DC coefficient of every decoded block is its decoded difference
\* plus the DC coefficient of the previous block of the same component, 0 at
\* the start of the scan and after a restart; the block emitted carries that
\* coefficient, and decoding a block of one component changes the predictor
\* of no other component.
C19_DCPrediction ==
    [][/\ (AtDCSymbol /\ sd'.pc = "ac") =>
              sd'.data_block[1] = DiffAhead + PreviousDC(CurrentScanComponent.id)
       /\ Len(sd'.blocks) = Len(sd.blocks) + 1 =>
              sd'.blocks[Len(sd'.blocks)][1] = sd.data_block[1]
       /\ sd.pc \in {"block", "ac"} =>
              \A i \in 1..Len(sd.prev_dc) :
                  i # sd.cid + 1 => sd'.prev_dc[i] = sd.prev_dc[i]
    ]_vars

-----------------------------------------------------------------------------
(* AC symbols *)

\* The code word of the AC table in use that the bits ahead begin with.
ACSymbolAhead ==
    CHOOSE e \in CodeBook(CurrentACTable) : IsPrefix(e.bits, RemainingBits(sd.bit_reader))

\* The AC loop is about to decode a symbol; the data holds its code word and
\* the bits of its value, and its size is one decode_block accepts.
AtWholeACSymbol ==
    /\ AtACSymbol
    /\ ~NoCodeWord(CurrentACTable, RemainingBits(sd.bit_reader))
    /\ ~SizeAbove(CurrentACTable, RemainingBits(sd.bit_reader), 10)
    /\ ~EndsInValue(CurrentACTable, RemainingBits(sd.bit_reader), 10)

\* C20: for an AC symbol rs other than 00 and F0 decoded at zigzag position
\* k, with r = rs >> 4 and s = rs & 0F: if k + r > 63 the block fails;
\* otherwise exactly s bits are read, the extended value is stored at natural
\* index zigzag[k + r], nothing else is written, so the r skipped positions
\* stay 0, and k becomes k + r + 1.  ZRL (F0) advances k by exactly 16, reads
\* no bits beyond its code and writes nothing.
C20_ACSymbolStep ==
    [][AtWholeACSymbol =>
        LET bits == RemainingBits(sd.bit_reader)
            e == ACSymbolAhead
            r == e.symbol \div 16
            s == e.symbol % 16
            k == sd.ac_counter
            raw == BitsValue(SubSeq(bits, Len(e.bits) + 1, Len(e.bits) + s))
        IN  CASE e.symbol = 0 -> TRUE
              [] e.symbol = 240 ->
                    /\ sd'.pc # "panic"
                    /\ sd'.ac_counter = k + 16
                    /\ sd'.data_block = sd.data_block
                    /\ BitPos(sd'.bit_reader) = BitPos(sd.bit_reader) + Len(e.bits)
              [] OTHER ->
                    IF k + r > 63 THEN sd'.pc = "panic"
                    ELSE /\ sd'.pc # "panic"
                         /\ BitPos(sd'.bit_reader)
                                = BitPos(sd.bit_reader) + Len(e.bits) + s
                         /\ sd'.data_block
                                = [sd.data_block EXCEPT ![zigzag[k + r + 1] + 1] = EXTEND(raw, s)]
                         /\ \A z \in k..(k + r - 1) : AtZigzag(sd'.data_block, z) = 0
                         /\ sd'.ac_counter = k + r + 1
    ]_vars

-----------------------------------------------------------------------------
(* Pixel stages: main after idct.  upscale twice, ycbcr_to_rgb_mcu and       *)
(* bmp_data_from_mcus, on the sample blocks idct hands over.  The f32 sums of *)
(* the colour conversion are computed in thousandths; the sample values of   *)
(* the inputs keep every sum away from a rounding tie, where f32 and exact   *)
(* arithmetic could round apart.                                             *)

MaxPixelMCUs == 1

\* A frame component of the pixel stages.
PixelComponent(id, h, v) ==
    [id |-> id, horizontal_sample_factor |-> h, vertical_sample_factor |-> v]

\* Configurations whose largest sampling factor is 3 or 4.
WideConfigs ==
    {<<PixelComponent(1, 4, 1), PixelComponent(2, 1, 1), PixelComponent(3, 1, 1)>>,
     <<PixelComponent(1, 1, 3), PixelComponent(2, 1, 1), PixelComponent(3, 1, 1)>>}

\* Gray, 4:4:4, 4:2:0, 4:2:2 and 4:4:0, and the wide ones.
PixelConfigs ==
    {<<PixelComponent(1, 1, 1)>>,
     <<PixelComponent(1, 1, 1), PixelComponent(2, 1, 1), PixelComponent(3, 1, 1)>>,
     <<PixelComponent(1, 2, 2), PixelComponent(2, 1, 1), PixelComponent(3, 1, 1)>>,
     <<PixelComponent(1, 2, 1), PixelComponent(2, 1, 1), PixelComponent(3, 1, 1)>>,
     <<PixelComponent(1, 1, 2), PixelComponent(2, 1, 1), PixelComponent(3, 1, 1)>>}
    \cup WideConfigs

\* The samples of a component: a ramp that numbers the samples of its blocks,
\* or one value everywhere.
Ramp == [ramp |-> TRUE, c |-> 0]

Flat(c) == [ramp |-> FALSE, c |-> c]

LumaPatterns == {Ramp, Flat(-32768), Flat(-200), Flat(0), Flat(100), Flat(32767)}

ChromaFlats == {Flat(-32768), Flat(0), Flat(10), Flat(32767)}

\* Cb and Cr: at most one of them is a ramp.
ChromaPatterns ==
    ({Ramp} \X ChromaFlats) \cup (ChromaFlats \X {Ramp}) \cup (ChromaFlats \X ChromaFlats)

\* Block j of MCU m of a component with pattern pat and n blocks per MCU.
SampleBlock(pat, m, j, n) ==
    [i \in 1..64 |-> IF pat.ramp THEN (i - 1) + 64 * ((m - 1) * n + (j - 1)) ELSE pat.c]

\* The MCUs idct returns: per component max_h * max_v blocks, those of the
\* component at cb_y * max_horizontal_factor + cb_x, zero blocks elsewhere.
SampleMCUs(comps, pats, n, max_vertical_factor, max_horizontal_factor) ==
    [m \in 1..n |->
        [c \in 1..Len(comps) |->
            [p \in 1..(max_vertical_factor * max_horizontal_factor) |->
                LET cb_y == (p - 1) \div max_horizontal_factor
                    cb_x == (p - 1) % max_horizontal_factor
                    h == comps[c].horizontal_sample_factor
                    v == comps[c].vertical_sample_factor
                IN  IF cb_y < v /\ cb_x < h
                    THEN SampleBlock(pats[c], m, cb_y * h + cb_x + 1, h * v)
                    ELSE ZeroBlock]]]

\* upscale_block
upscale_block(block, horizontal_scaling_factor, vertical_scaling_factor) ==
    IF horizontal_scaling_factor * vertical_scaling_factor <= 1 THEN <<block>>
    ELSE [b \in 1..(vertical_scaling_factor * horizontal_scaling_factor) |->
            LET upscaled_y == (b - 1) \div horizontal_scaling_factor
                upscaled_x == (b - 1) % horizontal_scaling_factor
            IN  [i \in 1..64 |->
                    LET y == (i - 1) \div 8
                        x == (i - 1) % 8
                        sample_y == (y + upscaled_y * 8) \div vertical_scaling_factor
                        sample_x == (x + upscaled_x * 8) \div horizontal_scaling_factor
                    IN  block[sample_y * 8 + sample_x + 1]]]

\* The blocks upscale builds for one frame component of one MCU: block b_idx
\* of the component is upscaled by x_scale = max_h - h + 1 and y_scale =
\* max_v - v + 1 and its blocks are stored at b_idx + ub_idx * v, a later
\* store replacing an earlier one.  ok is FALSE when an index is out of range.
upscale_component(mcu, fc, max_vertical_factor, max_horizontal_factor) ==
    LET mcu_size == max_horizontal_factor * max_vertical_factor
        x_scale == (max_horizontal_factor - fc.horizontal_sample_factor) + 1
        y_scale == (max_vertical_factor - fc.vertical_sample_factor) + 1
        total == fc.vertical_sample_factor * fc.horizontal_sample_factor
        made == IF x_scale * y_scale <= 1 THEN 1 ELSE x_scale * y_scale
        writers(p) ==
            {b_idx \in 0..(total - 1) :
                /\ p - b_idx >= 0
                /\ (p - b_idx) % fc.vertical_sample_factor = 0
                /\ (p - b_idx) \div fc.vertical_sample_factor < made}
    IN  IF \/ fc.id - 1 < 0
           \/ fc.id - 1 >= Len(mcu)
           \/ total > Len(mcu[fc.id])
           \/ (total - 1) + (made - 1) * fc.vertical_sample_factor >= mcu_size
        THEN [ok |-> FALSE, blocks |-> <<>>]
        ELSE [ok |-> TRUE,
              blocks |-> [q \in 1..mcu_size |->
                  IF writers(q - 1) = {} THEN ZeroBlock
                  ELSE LET b_idx == MaxOf(writers(q - 1))
                           ub_idx == (q - 1 - b_idx) \div fc.vertical_sample_factor
                       IN  upscale_block(mcu[fc.id][b_idx + 1], x_scale, y_scale)[ub_idx + 1]]]

\* upscale
upscale(mcus, max_vertical_factor, max_horizontal_factor, frame_components) ==
    LET kept == SelectSeq(frame_components,
                    LAMBDA fc : fc.horizontal_sample_factor * fc.vertical_sample_factor # 0)
        up(m, c) == upscale_component(mcus[m], kept[c],
                                      max_vertical_factor, max_horizontal_factor)
    IN  IF \E m \in 1..Len(mcus) : \E c \in 1..Len(kept) : ~up(m, c).ok
        THEN [ok |-> FALSE, mcus |-> <<>>]
        ELSE [ok |-> TRUE,
              mcus |-> [m \in 1..Len(mcus) |-> [c \in 1..Len(kept) |-> up(m, c).blocks]]]

\* f32::round of a number given in thousandths: half away from zero.
RoundThousandths(t) ==
    IF t >= 0 THEN (t + 500) \div 1000 ELSE -(((-t) + 500) \div 1000)

\* `as i16` of a float: saturating.
SaturateI16(x) == IF x > 32767 THEN 32767 ELSE IF x < -32768 THEN -32768 ELSE x

\* `(sum.round() as i16 + 128).max(0).min(255)`: the i16 addition overflows
\* when the rounded sum is above 32639; it panics with overflow checks and
\* wraps without them.
ColourChannel(t, oc) ==
    LET sum == SaturateI16(RoundThousandths(t)) + 128
        clamp(x) == IF x < 0 THEN 0 ELSE IF x > 255 THEN 255 ELSE x
    IN  IF sum > 32767 /\ oc THEN [ok |-> FALSE, value |-> 0]
        ELSE [ok |-> TRUE, value |-> clamp(WrapI16(sum))]

\* The three channels of one pixel, in thousandths before rounding.
RedOf(y, cb, cr) == 1000 * y + 1402 * cr

GreenOf(y, cb, cr) == 1000 * y - 344 * cb - 714 * cr

BlueOf(y, cb, cr) == 1000 * y + 1772 * cb

\* ycbcr_to_rgb_mcu: a clone of mcus for one component, R, G, B in the
\* places of Y, Cb, Cr for three, a panic for any other count.
ycbcr_to_rgb_mcu(mcus, total_mcus, total_components, mcu_size, oc) ==
    LET t(m, b, i, ch) ==
            LET y == mcus[m][1][b][i]
                cb == mcus[m][2][b][i]
                cr == mcus[m][3][b][i]
            IN  CASE ch = 1 -> RedOf(y, cb, cr)
                  [] ch = 2 -> GreenOf(y, cb, cr)
                  [] OTHER -> BlueOf(y, cb, cr)
    IN  IF total_components = 1 THEN [ok |-> TRUE, mcus |-> mcus]
        ELSE IF total_components # 3 THEN [ok |-> FALSE, mcus |-> <<>>]
        ELSE IF \/ total_mcus > Len(mcus)
                \/ \E m \in 1..total_mcus :
                      \/ Len(mcus[m]) < 3
                      \/ \E c \in 1..3 : Len(mcus[m][c]) < mcu_size
        THEN [ok |-> FALSE, mcus |-> <<>>]
        ELSE IF \E m \in 1..total_mcus : \E b \in 1..mcu_size : \E i \in 1..64 :
                    \E ch \in 1..3 : ~ColourChannel(t(m, b, i, ch), oc).ok
        THEN [ok |-> FALSE, mcus |-> <<>>]
        ELSE [ok |-> TRUE,
              mcus |-> [m \in 1..total_mcus |->
                          [ch \in 1..3 |->
                              [b \in 1..mcu_size |->
                                  [i \in 1..64 |->
                                      ColourChannel(t(m, b, i, ch), oc).value]]]]]

\* bmp_data_from_mcus.  For one component it writes image_data[y * mcu_idx +
\* x] into a vector of length 0, which panics at the first sample.  Otherwise
\* it pushes, row by row from the last line up, the bytes of the components in
\* reverse frame order for every pixel, then width % 4 zero bytes.
bmp_data_from_mcus(mcus, total_components, width, height, width_blocks, width_blocks_padding, max_vertical_factor, max_horizontal_factor, frame_components) ==
    LET nc == Len(frame_components)
        mcu_width == (width_blocks + width_blocks_padding) \div max_horizontal_factor
        row == width * nc + (width % 4)
        mcu_of(y, x) == (y \div (8 * max_vertical_factor)) * mcu_width
                        + (x \div (8 * max_horizontal_factor))
        block_of(y, x) == ((y \div 8) % max_vertical_factor) * max_horizontal_factor
                          + ((x \div 8) % max_horizontal_factor)
        reachable(y, x, c) ==
            /\ mcu_of(y, x) < Len(mcus)
            /\ frame_components[c].id - 1 >= 0
            /\ frame_components[c].id - 1 < Len(mcus[mcu_of(y, x) + 1])
            /\ block_of(y, x) < Len(mcus[mcu_of(y, x) + 1][frame_components[c].id])
    IN  IF total_components = 1
        THEN [ok |-> \A m \in 1..Len(mcus) : \A c \in 1..Len(mcus[m]) : mcus[m][c] = <<>>,
              image_data |-> <<>>]
        ELSE IF \E y \in 0..(height - 1) : \E x \in 0..(width - 1) : \E c \in 1..nc :
                    ~reachable(y, x, c)
        THEN [ok |-> FALSE, image_data |-> <<>>]
        ELSE [ok |-> TRUE,
              image_data |->
                  [k \in 1..(height * row) |->
                      LET y == height - 1 - ((k - 1) \div row)
                          col == (k - 1) % row
                          x == col \div nc
                          c == nc - (col % nc)
                      IN  IF col >= width * nc THEN 0
                          ELSE mcus[mcu_of(y, x) + 1][frame_components[c].id]
                                   [block_of(y, x) + 1][(y % 8) * 8 + (x % 8) + 1] % 256]]

\* The state after idct for an image of width x height pixels: the frame
\* components, the sampling maxima and block counts of main, and the MCUs, as
\* many as decode_huffman_to_blocks counts; decoded keeps the MCUs idct
\* returned.
PixelLocals(comps, pats, width, height) ==
    LET maxv == MaxOf({comps[i].vertical_sample_factor : i \in 1..Len(comps)})
        maxh == MaxOf({comps[i].horizontal_sample_factor : i \in 1..Len(comps)})
        wb == (width + 7) \div 8
        hb == (height + 7) \div 8
        total_mcus == ((wb + (wb % maxh)) \div maxh) * ((hb + (hb % maxv)) \div maxv)
        src == SampleMCUs(comps, pats, total_mcus, maxv, maxh)
    IN  [pc |-> "idct", stage |-> "idct",
         frame_components |-> comps, total_components |-> Len(comps),
         width |-> width, height |-> height,
         width_blocks |-> wb, height_blocks |-> hb,
         width_blocks_padding |-> wb % maxh,
         height_blocks_padding |-> hb % maxv,
         max_vertical_factor |-> maxv, max_horizontal_factor |-> maxh,
         decoded |-> src, mcus |-> src, image_data |-> <<>>]

\* Image sizes of whole MCUs, 1..MaxPixelMCUs of them in a row.
WholeSizes(comps) ==
    LET maxv == MaxOf({comps[i].vertical_sample_factor : i \in 1..Len(comps)})
        maxh == MaxOf({comps[i].horizontal_sample_factor : i \in 1..Len(comps)})
    IN  {<<8 * maxh * n, 8 * maxv>> : n \in 1..MaxPixelMCUs}

\* Image sizes that end inside an MCU or inside a block: one block and a
\* part of the next in either direction, and a part of one block.
PartSizes == {<<13, 8>>, <<8, 13>>, <<5, 3>>}

\* Every pattern on the images of whole MCUs of the narrow configurations;
\* one pattern on the other images.
PixelInit ==
    /\ fr = LoopInit /\ rest = <<>> /\ nchunks = 0 /\ head2 = ChunkSOI /\ eoi_read = FALSE
    /\ overflow_checks \in BOOLEAN
    /\ hs = Idle /\ ex = Idle /\ sd = Idle /\ br = Idle
    /\ \E comps \in PixelConfigs : \E size \in WholeSizes(comps) \cup PartSizes :
       \E y \in LumaPatterns : \E cc \in ChromaPatterns :
          /\ Len(comps) = 1 => cc = <<Flat(0), Flat(0)>>
          /\ (size \in PartSizes \/ comps \in WideConfigs)
                => (y = Ramp /\ cc = <<Flat(0), Flat(10)>>)
          /\ px = PixelLocals(comps, <<y, cc[1], cc[2]>>, size[1], size[2])

PixelOthersUnchanged ==
    UNCHANGED <<fr, rest, nchunks, overflow_checks, head2, eoi_read, hs, ex, sd, br>>

\* The first `mcus = upscale(..)` of main.
UpscaleFirst ==
    /\ px.pc = "idct"
    /\ LET u == upscale(px.mcus, px.max_vertical_factor, px.max_horizontal_factor,
                        px.frame_components)
       IN  px' = [px EXCEPT !.pc = IF u.ok THEN "upscaled" ELSE "panic",
                            !.stage = "upscaled",
                            !.mcus = IF u.ok THEN u.mcus ELSE @]
    /\ PixelOthersUnchanged

\* The second `mcus = upscale(..)` of main, on the result of the first.
UpscaleSecond ==
    /\ px.pc = "upscaled"
    /\ LET u == upscale(px.mcus, px.max_vertical_factor, px.max_horizontal_factor,
                        px.frame_components)
       IN  px' = [px EXCEPT !.pc = IF u.ok THEN "upscaled twice" ELSE "panic",
                            !.stage = "upscaled twice",
                            !.mcus = IF u.ok THEN u.mcus ELSE @]
    /\ PixelOthersUnchanged

\* `mcus = ycbcr_to_rgb_mcu(..)` of main.
ConvertColour ==
    /\ px.pc = "upscaled twice"
    /\ LET total_mcus ==
               ((px.width_blocks + px.width_blocks_padding) \div px.max_horizontal_factor)
               * ((px.height_blocks + px.height_blocks_padding) \div px.max_vertical_factor)
           r == ycbcr_to_rgb_mcu(px.mcus, total_mcus, px.total_components,
                    px.max_vertical_factor * px.max_horizontal_factor, overflow_checks)
       IN  px' = [px EXCEPT !.pc = IF r.ok THEN "converted" ELSE "panic",
                            !.stage = "converted",
                            !.mcus = IF r.ok THEN r.mcus ELSE @]
    /\ PixelOthersUnchanged

\* `bmp_data_from_mcus(..)` of main.
BuildBitmap ==
    /\ px.pc = "converted"
    /\ LET r == bmp_data_from_mcus(px.mcus, px.total_components, px.width, px.height,
                    px.width_blocks, px.width_blocks_padding,
                    px.max_vertical_factor, px.max_horizontal_factor,
                    px.frame_components)
       IN  px' = [px EXCEPT !.pc = IF r.ok THEN "bitmap" ELSE "panic",
                            !.stage = "bitmap",
                            !.image_data = r.image_data]
    /\ PixelOthersUnchanged

PixelNext ==
    \/ UpscaleFirst
    \/ UpscaleSecond
    \/ ConvertColour
    \/ BuildBitmap

SpecPixels == PixelInit /\ [][PixelNext]_vars

\* C12: for a frame of three components the colour conversion never aborts,
\* whatever signed 16-bit samples Y, Cb, Cr it is handed, and every R, G and
\* B value it produces lies in 0..255.
C12_RGBInRange ==
    px.pc # "idle" /\ px.total_components = 3 =>
        /\ ~(px.pc = "panic" /\ px.stage = "converted")
        /\ px.pc = "converted" =>
              \A m \in 1..Len(px.mcus) : \A c \in 1..3 :
                  \A b \in 1..Len(px.mcus[m][c]) : \A i \in 1..64 :
                      px.mcus[m][c][b][i] \in 0..255

\* C13: for a frame of one component every pixel the colour conversion
\* returns is the luma sample plus 128, clamped to 0..255, and the decoder
\* goes on to a raster of X * Y pixels without aborting.
C13_GrayLevelShift ==
    px.pc # "idle" /\ px.total_components = 1 =>
        /\ px.pc # "panic"
        /\ px.pc \in {"converted", "bitmap"} =>
              \A m \in 1..Len(px.mcus) : \A i \in 1..64 :
                  LET luma == px.decoded[m][1][1][i] + 128
                  IN  px.mcus[m][1][1][i]
                          = IF luma < 0 THEN 0 ELSE IF luma > 255 THEN 255 ELSE luma
        /\ px.pc = "bitmap" => Len(px.image_data) >= px.width * px.height

\* The sample idct returned for a frame component at row sy and column sx of
\* the component's part of an MCU.
DecodedSample(mcu, fc, sy, sx) ==
    mcu[fc.id][(sy \div 8) * px.max_horizontal_factor + (sx \div 8) + 1]
       [(sy % 8) * 8 + (sx % 8) + 1]

\* C14: the sample of every component that is handed to the colour
\* conversion for MCU pixel (y, x) is the component's decoded sample at
\* (y * Vi / Vmax, x * Hi / Hmax): nearest-neighbour replication by Hmax / Hi
\* and Vmax / Vi, applied once.
C14_UpsampledOnce ==
    px.pc = "upscaled twice" =>
        \A m \in 1..Len(px.mcus) : \A c \in 1..Len(px.frame_components) :
            LET fc == px.frame_components[c]
            IN  \A y \in 0..(8 * px.max_vertical_factor - 1) :
                \A x \in 0..(8 * px.max_horizontal_factor - 1) :
                    px.mcus[m][c][(y \div 8) * px.max_horizontal_factor + (x \div 8) + 1]
                           [(y % 8) * 8 + (x % 8) + 1]
                        = DecodedSample(px.decoded[m], fc,
                              (y * fc.vertical_sample_factor) \div px.max_vertical_factor,
                              (x * fc.horizontal_sample_factor) \div px.max_horizontal_factor)

-----------------------------------------------------------------------------
(* A restart interval of 0 *)

\* The frame holds a DRI segment whose interval is 0.
ZeroInterval ==
    /\ sd.frame.restart_interval # <<>>
    /\ sd.frame.restart_interval[1].interval = 0

\* C21: with a DRI segment of interval 0 the MCU loop enters every MCU
\* without failing and with restart false, so that no predictor is reset and
\* the reader is not aligned: the scan is decoded as without a DRI segment.
C21_ZeroIntervalNoRestart ==
    [][(sd.pc = "mcu" /\ ZeroInterval /\ sd.mcu_idx < sd.total_mcus)
          => (sd'.pc = "component" /\ ~sd'.restart)]_vars

-----------------------------------------------------------------------------
(* The number of MCUs *)

\* The largest sampling factors of the frame, at least 1.
FrameHmax ==
    MaxOf({1} \cup {sd.frame.frame_header.components[i].horizontal_sample_factor :
                        i \in 1..Len(sd.frame.frame_header.components)})

FrameVmax ==
    MaxOf({1} \cup {sd.frame.frame_header.components[i].vertical_sample_factor :
                        i \in 1..Len(sd.frame.frame_header.components)})

\* ceil(X / (8 Hmax)) * ceil(Y / (8 Vmax)) for the frame.
CeilMCUs ==
    CeilDiv(sd.frame.frame_header.total_horizontal_lines, 8 * FrameHmax)
    * CeilDiv(sd.frame.frame_header.total_vertical_lines, 8 * FrameVmax)

\* C22: the number of MCUs the scan decoder is to iterate over, the number it
\* has iterated over when the scan is decoded, and the number of MCUs that
\* partition_blocks_to_mcus builds and dequantize returns, all equal
\* ceil(X / (8 Hmax)) * ceil(Y / (8 Vmax)).
C22_MCUCount ==
    /\ sd.pc \notin {"idle", "loaded", "panic"} => sd.total_mcus = CeilMCUs
    /\ sd.pc = "scanned" => sd.mcu_idx = CeilMCUs
    /\ sd.pc \in {"partitioned", "dequantized"} => Len(sd.mcus) = CeilMCUs

-----------------------------------------------------------------------------
(* The order of the quantization table *)

\* The quantization table dequantize applies to the frame component fc.
AppliedTable(fc) == sd.frame.quantization_tables[fc.quantization_table_selector + 1]

\* C23: dequantize replaces the coefficient decoded at zigzag position k of
\* every block by its product with byte k of the 64 bytes of the applied
\* quantization table, in the order of the DQT segment, for k in 0..63.
C23_DequantizeInZigzagOrder ==
    [][(sd.pc = "partitioned" /\ sd'.pc = "dequantized")
          => \A m \in 1..Len(sd'.mcus) : \A c \in 1..Len(sd'.mcus[m]) :
             \A i \in 1..Len(sd'.mcus[m][c]) : \A k \in 0..63 :
                 LET fc == sd.frame.frame_header.components[c]
                 IN  AtZigzag(sd'.mcus[m][c][i], k)
                         = WrapI16(AtZigzag(sd.mcus[m][fc.id][i], k)
                                   * AppliedTable(fc).elements[k + 1])]_vars

-----------------------------------------------------------------------------
(* Raster assembly *)

\* The byte of image_data that holds frame component c of pixel (y, x): rows
\* from the last line up, each of them width pixels and width % 4 bytes of
\* padding, the components of a pixel in reverse frame order.
RasterByte(y, x, c) ==
    LET nc == px.total_components
        row == px.width * nc + (px.width % 4)
    IN  px.image_data[(px.height - 1 - y) * row + x * nc + (nc - c) + 1]

\* The sample of component c that the MCU grid holds for pixel (y, x): MCU
\* (y / (8 Vmax), x / (8 Hmax)) of a grid ceil(X / (8 Hmax)) MCUs wide, block
\* ((y / 8) mod Vmax) Hmax + ((x / 8) mod Hmax), sample (y mod 8, x mod 8).
GridSample(y, x, c) ==
    LET maxv == px.max_vertical_factor
        maxh == px.max_horizontal_factor
        mcu == (y \div (8 * maxv)) * CeilDiv(px.width, 8 * maxh) + (x \div (8 * maxh))
        block == ((y \div 8) % maxv) * maxh + ((x \div 8) % maxh)
    IN  px.mcus[mcu + 1][c][block + 1][(y % 8) * 8 + (x % 8) + 1]

\* C24: raster assembly does not fail on an index, emits Y rows of X pixels
\* each, and the byte of every component of every pixel (y, x) is the sample
\* of the MCU, block and sample index that the pixel's coordinates give.
C24_RasterIndices ==
    px.stage = "bitmap" =>
        /\ px.pc = "bitmap"
        /\ Len(px.image_data)
              = px.height * (px.width * px.total_components + (px.width % 4))
        /\ \A y \in 0..(px.height - 1) : \A x \in 0..(px.width - 1) :
           \A c \in 1..px.total_components :
               RasterByte(y, x, c) = GridSample(y, x, c) % 256

-----------------------------------------------------------------------------
(* The bit reader *)

-----------------------------------------------------------------------------
(* The bit reader on its own: next_bit and next_bits called in any order on  *)
(* a reader over a short buffer.                                              *)

MaxBufferBytes == 3

\* The largest length next_bits accepts.
MaxReceive == 16

\* The bytes of the buffers: 10100101, 10000000, 00000001.
BufferBytes == {165, 128, 1}

Buffers == UNION {[1..n -> BufferBytes] : n \in 0..MaxBufferBytes}

BitsInit ==
    /\ fr = LoopInit /\ rest = <<>> /\ nchunks = 0 /\ head2 = <<>> /\ eoi_read = FALSE
    /\ overflow_checks \in BOOLEAN
    /\ hs = Idle /\ ex = Idle /\ sd = Idle /\ px = Idle
    /\ \E data \in Buffers :
          br = [pc |-> "new", r |-> BitReader_new(data),
                before |-> BitReader_new(data), length |-> 0, got |-> None]

BitsOthersUnchanged ==
    UNCHANGED <<fr, rest, nchunks, overflow_checks, head2, eoi_read, hs, ex, sd, px>>

\* A call of next_bit.
ReadBit ==
    /\ br.pc \in {"new", "next_bit", "next_bits"}
    /\ LET b == next_bit(br.r)
       IN  br' = [pc |-> "next_bit", r |-> b.r, before |-> br.r, length |-> 1,
                  got |-> b.bit]
    /\ BitsOthersUnchanged

\* A call of next_bits, which panics on a length above 16.
ReadBits ==
    /\ br.pc \in {"new", "next_bit", "next_bits"}
    /\ \E length \in 0..(MaxReceive + 1) :
          IF length > MaxReceive
          THEN br' = [br EXCEPT !.pc = "panic", !.before = br.r, !.length = length]
          ELSE LET g == next_bits(br.r, length)
               IN  br' = [pc |-> "next_bits", r |-> g.r, before |-> br.r,
                          length |-> length, got |-> g.bits]
    /\ BitsOthersUnchanged

BitsNext == ReadBit \/ ReadBits

SpecBits == BitsInit /\ [][BitsNext]_vars

\* The first n of the bits a reader has not consumed, or all of them when
\* they are fewer: the bits of each byte from bit 7 down to bit 0.
BitsAhead(r, n) ==
    LET left == 8 * Len(r.data) - BitPos(r)
    IN  [i \in 1..(IF left < n THEN left ELSE n) |->
            LET p == BitPos(r) + i - 1
            IN  CodeBits(r.data[(p \div 8) + 1], 8)[(p % 8) + 1]]

\* The bits and the reader that n successive calls of next_bit give.
RECURSIVE ReadSingly(_, _)
ReadSingly(r, n) ==
    IF n = 0 THEN [bits |-> <<>>, r |-> r]
    ELSE LET b == next_bit(r)
             more == ReadSingly(b.r, n - 1)
         IN  [bits |-> <<b.bit>> \o more.bits, r |-> more.r]

\* C25: next_bit returns the bits of the buffer in order, bit 7 of each byte
\* first, and None exactly when all 8 * len bits have been read; next_bits(n)
\* for n <= 16 returns the number the next n bits spell, the first bit read
\* most significant, and leaves the reader exactly n bits further, as n
\* successive calls of next_bit do.
C25_BitReaderOrder ==
    /\ br.pc = "next_bit" =>
          /\ (br.got = None) <=> (BitPos(br.before) = 8 * Len(br.before.data))
          /\ br.got # None =>
                /\ <<br.got>> = BitsAhead(br.before, 1)
                /\ BitPos(br.r) = BitPos(br.before) + 1
    /\ (br.pc = "next_bits" /\ Len(BitsAhead(br.before, br.length)) = br.length) =>
          /\ br.got = BitsValue(BitsAhead(br.before, br.length))
          /\ BitPos(br.r) = BitPos(br.before) + br.length
          /\ br.got = BitsValue(ReadSingly(br.before, br.length).bits)
          /\ br.r = ReadSingly(br.before, br.length).r

\* next_bits has returned the value of 16 bits that begin inside a byte and
\* are neither all 0 nor all 1, after an earlier call.
C25_Witness ==
    /\ br.pc = "next_bits" /\ br.length = 16
    /\ br.before.bit_idx = 3
    /\ br.got \notin {None, 0, 65535}
    /\ BitPos(br.r) = BitPos(br.before) + 16

-----------------------------------------------------------------------------
(* The parameters of the scan header *)

\* Ss, Se and Ah|Al of the SOS segments fed: a baseline scan, and a scan
\* whose three bytes differ.
ScanParameters == {<<0, 63, 0>>, <<1, 5, 18>>}

\* C26: from a marker start, an SOS segment with one or two components and
\* the bytes Ss, Se, Ah|Al after the component list is parsed to a scan header
\* that holds Ss, Se, and the high and low nibble of the third byte; the
\* baseline bytes 0, 63, 0 give (0, 63, 0, 0).
C26_ScanHeaderParameters ==
    AtMarkerStart =>
        \A p \in ScanParameters : \A ns \in 1..2 :
            LET list == IF ns = 1 THEN <<1, 0>> ELSE <<1, 0, 2, 17>>
                t == Feed(fr, <<255, SOS>> \o Be16(6 + 2 * ns) \o <<ns>> \o list \o p,
                          overflow_checks)
                h == t.frame.scans[Len(t.frame.scans)].scan_header
            IN  /\ t.outcome = "reading"
                /\ Len(t.frame.scans) = Len(fr.frame.scans) + 1
                /\ h.total_components = ns
                /\ h.spectral_selection_start = p[1]
                /\ h.spectral_selection_end = p[2]
                /\ h.successive_approximation_hi = p[3] \div 16
                /\ h.successive_approximation_lo = p[3] % 16

-----------------------------------------------------------------------------
(* The tables of a DHT segment *)

\* Count vectors L with sums 0, 1, 2 and 3.
SegmentCounts ==
    {Zeros(16), <<1>> \o Zeros(15), <<0, 2>> \o Zeros(14), <<1, 1, 1>> \o Zeros(13)}

\* A count vector with sum 256: 255 codes of length 8 and one of length 9.
FullCounts == [i \in 1..16 |-> IF i = 8 THEN 255 ELSE IF i = 9 THEN 1 ELSE 0]

\* The bytes of a table of class and id tc_th with counts L and the values
\* 0, 1, .. (mod 256).
CountedTable(tc_th, L) == TableBytes(tc_th, L, [j \in 1..SumSeq(L) |-> (j - 1) % 256])

\* The table t holds the class, id, counts and values of the bytes b.
HoldsBytes(t, b) ==
    /\ t.class = b[1] \div 16
    /\ t.destination_id = b[1] % 16
    /\ t.huffman_size_lengths = Slice(b, 1, 17)
    /\ t.huffman_values = Slice(b, 17, Len(b))

\* The framer s has appended one DC table that holds dc, and then, if ac is
\* not empty, one AC table that holds ac, to the tables of the frame before,
\* and expects the second byte of a marker.
TablesRead(before, s, dc, ac) ==
    /\ s.outcome = "reading"
    /\ s.stage = "Marker"
    /\ s.current_marker_bytes = <<255, None>>
    /\ Len(s.frame.dc_huffman_tables) = Len(before.frame.dc_huffman_tables) + 1
    /\ HoldsBytes(s.frame.dc_huffman_tables[Len(s.frame.dc_huffman_tables)], dc)
    /\ Len(s.frame.ac_huffman_tables)
          = Len(before.frame.ac_huffman_tables) + (IF ac = <<>> THEN 0 ELSE 1)
    /\ ac # <<>> =>
          HoldsBytes(s.frame.ac_huffman_tables[Len(s.frame.ac_huffman_tables)], ac)

\* C27: from a marker start, a DHT segment of one table (17 + sum of L bytes)
\* or of two tables, for count vectors of sum 0..3 and of sum 256, is read
\* into as many Huffman tables, which hold the class, id, L and V
\* transmitted, and the byte after the segment is read in the Marker stage.
C27_TablesOfSegment ==
    AtMarkerStart =>
        /\ \A L \in SegmentCounts \cup {FullCounts} :
              LET dc == CountedTable(0, L)
              IN  TablesRead(fr, Feed(fr, <<255, DHT>> \o Be16(2 + Len(dc)) \o dc \o <<255>>,
                                      overflow_checks), dc, <<>>)
        /\ \A L \in SegmentCounts : \A M \in SegmentCounts :
              LET dc == CountedTable(1, L)
                  ac == CountedTable(16, M)
              IN  TablesRead(fr, Feed(fr, <<255, DHT>> \o Be16(2 + Len(dc) + Len(ac))
                                          \o dc \o ac \o <<255>>,
                                      overflow_checks), dc, ac)

-----------------------------------------------------------------------------
(* Scan components and frame components *)

\* The positions of the frame components whose id is id.
FramePositions(id) ==
    {i \in 1..Len(sd.frame.frame_header.components) :
        sd.frame.frame_header.components[i].id = id}

\* C28: when the MCU loop turns to a scan component whose selector is the id
\* of a frame component, whatever the value of the id, it does not fail and
\* goes on to decode Hi * Vi blocks, Hi and Vi being the sampling factors of
\* that frame component.
C28_ComponentsById ==
    [][(/\ sd.pc = "component"
        /\ sd.sc_idx < Len(sd.frame.scans[sd.scan_idx + 1].scan_header.components)
        /\ FramePositions(CurrentScanComponent.id) # {})
          => /\ sd'.pc = "block"
             /\ \E i \in FramePositions(CurrentScanComponent.id) :
                   sd'.blocks_per_component[sd'.cid + 1]
                       = sd.frame.frame_header.components[i].horizontal_sample_factor
                         * sd.frame.frame_header.components[i].vertical_sample_factor]_vars

-----------------------------------------------------------------------------
(* The bits of one MCU *)

\* C29: inside an MCU the reader is moved by decoding blocks only: when the
\* MCU loop turns to the second or a later scan component of an MCU, whether
\* or not the MCU starts a restart interval, the first block of that component
\* begins at the bit after the last bit of the block before it.
C29_ContiguousWithinMCU ==
    [][(/\ sd.pc = "component"
        /\ sd.sc_idx > 0
        /\ sd.sc_idx < Len(sd.frame.scans[sd.scan_idx + 1].scan_header.components)
        /\ sd'.pc = "block")
          => sd'.bit_reader = sd.bit_reader]_vars

-----------------------------------------------------------------------------
(* Termination of the scan decode *)

\* No step of the scan decode can be taken: main has the dequantized MCUs, or
\* the program has failed.
ScanStopped == sd.pc \in {"dequantized", "panic"}

\* The scan decode of a program that keeps running, which a sequential
\* program does: weak fairness of ScanNext.  Every action is enabled by the
\* value of sd.pc alone and changes sd, so ScanNext is enabled exactly when
\* ScanStopped is false, and the fairness condition is written with that
\* state predicate.
SpecScanFair ==
    ScanInit /\ [][ScanNext]_vars /\ ([]<>ScanStopped \/ []<><<ScanNext>>_vars)

\* The bits next_symbol consumes from the reader of the scan with table hf.
SymbolBitsRead(hf) == BitPos(next_symbol(sd.bit_reader, hf).r) - BitPos(sd.bit_reader)

\* The scan decode is over: decode_huffman_to_blocks has returned, or the
\* program has failed.
ScanOver == sd.pc \in {"scanned", "partitioned", "dequantized", "panic"}

\* C30: a symbol decode reads at most 17 bits; a pass of the AC loop ends the
\* block, fails, or leaves k larger than it was and below 64; a pass of the
\* MCU loop begins with mcu_idx below total_mcus and the turn after its last
\* component adds 1 to mcu_idx; no step reads more than 28 bits.  The scan
\* decode of a program that keeps running is over after finitely many steps.
C30_ScanDecodeTerminates ==
    /\ [][/\ AtDCSymbol => SymbolBitsRead(CurrentDCTable) <= 17
          /\ AtACSymbol => SymbolBitsRead(CurrentACTable) <= 17
          /\ sd.pc = "ac" =>
                \/ sd'.pc \in {"block", "panic"}
                \/ sd'.pc = "ac" /\ sd.ac_counter < sd'.ac_counter /\ sd'.ac_counter < 64
          /\ sd.pc \in {"component", "block", "ac"} => sd.mcu_idx < sd.total_mcus
          /\ (sd.pc = "component" /\ sd'.pc = "mcu") => sd'.mcu_idx = sd.mcu_idx + 1
          /\ (sd.pc = "mcu" /\ sd'.pc = "scan") => sd.mcu_idx = sd.total_mcus
          /\ sd.pc \in {"mcu", "component", "block", "ac"} =>
                /\ sd'.total_mcus = sd.total_mcus
                /\ BitPos(sd'.bit_reader) >= BitPos(sd.bit_reader)
                /\ BitPos(sd'.bit_reader) - BitPos(sd.bit_reader) <= 28]_vars
    /\ <>ScanOver

\* The scan decode has returned every block of a file whose first block took
\* the AC loop through ZRL symbols up to position 63.
C30_Witness ==
    /\ sd.pc = "scanned"
    /\ sd.blocks # <<>>
    /\ Len(sd.blocks) = sd.total_mcus * FrameBlocksPerMCU
    /\ AtZigzag(sd.blocks[1], 63) # 0

====
